---- MODULE Spec2Model ----
(***************************************************************************)
(* Model of the schedule poster renderer (src/renderer.py, src/frame.py,   *)
(* src/image_utils.py).  One call of render_poster_to_buffer is a process  *)
(* whose position is pc; the figure-unit arithmetic of the layout is done  *)
(* in exact rationals <<numerator, denominator>>.                          *)
(***************************************************************************)
EXTENDS Integers, Sequences, FiniteSets, TLC

\* ------------------------------------------------------------------------
\* Bounds of the model
\* ------------------------------------------------------------------------
MaxEntries == 2        \* schedule entries
MaxVols == 3           \* items of one entry
MaxCols == 2           \* grid columns
MaxTotalItems == 4     \* frames of a group handed to a stagger strategy
MaxCaptionVols == 4    \* item numbers of a caption
MaxResponse == 2       \* cover entries of a catalog response
MaxChanges == 3        \* changes of the widgets of the settings panel
MaxFetches == 2        \* cover fetches started in one session
MaxSide == 4           \* width and height of an image, in pixels
MaxElements == 5       \* layers and groups of an OpenRaster file

\* ------------------------------------------------------------------------
\* Exact rational arithmetic (Python floats of the layout, without rounding)
\* ------------------------------------------------------------------------
Abs(i) == IF i < 0 THEN -i ELSE i

RECURSIVE Gcd(_, _)
Gcd(a, b) == IF b = 0 THEN a ELSE Gcd(b, a % b)

Q(n, d) ==
    LET s == IF d < 0 THEN -1 ELSE 1
        g == Gcd(Abs(n), Abs(d))
    IN  <<(s * n) \div g, (s * d) \div g>>

QInt(i) == <<i, 1>>
QAdd(a, b) == Q(a[1] * b[2] + b[1] * a[2], a[2] * b[2])
QSub(a, b) == Q(a[1] * b[2] - b[1] * a[2], a[2] * b[2])
QMul(a, b) == Q(a[1] * b[1], a[2] * b[2])
QDiv(a, b) == Q(a[1] * b[2], a[2] * b[1])
QLt(a, b) == a[1] * b[2] < b[1] * a[2]
QLe(a, b) == a[1] * b[2] <= b[1] * a[2]
QMin(a, b) == IF QLe(a, b) THEN a ELSE b
QMax(a, b) == IF QLe(b, a) THEN a ELSE b
QZero == <<0, 1>>
QOne == <<1, 1>>
\* Python int(): truncation toward zero
QTrunc(a) == IF a[1] >= 0 THEN a[1] \div a[2] ELSE -((-a[1]) \div a[2])

\* ------------------------------------------------------------------------
\* Exact arithmetic of the frame geometry: the numbers a + b*sqrt(3) with a, b
\* rational, as <<a, b>> (np.sqrt(3) and the tangents of the skew angles,
\* without rounding)
\* ------------------------------------------------------------------------
SQ(a) == <<a, QZero>>
SZero == SQ(QZero)
Sqrt3 == <<QZero, QOne>>
SAdd(x, y) == <<QAdd(x[1], y[1]), QAdd(x[2], y[2])>>
SSub(x, y) == <<QSub(x[1], y[1]), QSub(x[2], y[2])>>
SMul(x, y) ==
    <<QAdd(QMul(x[1], y[1]), QMul(QInt(3), QMul(x[2], y[2]))),
      QAdd(QMul(x[1], y[2]), QMul(x[2], y[1]))>>
\* x / 2
SHalf(x) == <<QDiv(x[1], QInt(2)), QDiv(x[2], QInt(2))>>
\* x / sqrt(3)
SDivSqrt3(x) == <<x[2], QDiv(x[1], QInt(3))>>
\* 0 <= p + q*sqrt(3)
SNonNeg(x) ==
    LET p == x[1]
        q == x[2]
    IN  IF QLe(QZero, p) /\ QLe(QZero, q) THEN TRUE
        ELSE IF QLe(p, QZero) /\ QLe(q, QZero) THEN FALSE
        ELSE IF QLe(QZero, p)
             THEN QLe(QMul(QInt(3), QMul(q, q)), QMul(p, p))
             ELSE QLe(QMul(p, p), QMul(QInt(3), QMul(q, q)))
SLe(x, y) == SNonNeg(SSub(y, x))
SLt(x, y) == ~SLe(y, x)
SMin(x, y) == IF SLe(x, y) THEN x ELSE y

\* np.tan(np.radians(deg)), np.cos and np.sin, for the angles of the model
Tan(deg) ==
    CASE deg = 0 -> SZero
      [] deg = 15 -> <<QInt(2), QInt(-1)>>
      [] deg = -15 -> <<QInt(-2), QInt(1)>>
      [] deg = 30 -> <<QZero, Q(1, 3)>>
      [] deg = 45 -> SQ(QOne)
      [] deg = -45 -> SQ(QInt(-1))
      [] deg = 60 -> Sqrt3

Cos(deg) ==
    CASE deg = 0 -> SQ(QOne)
      [] deg = 30 -> <<QZero, Q(1, 2)>>
      [] deg = 60 -> SQ(Q(1, 2))
      [] deg = 90 -> SZero

Sin(deg) ==
    CASE deg = 0 -> SZero
      [] deg = 30 -> SQ(Q(1, 2))
      [] deg = 60 -> <<QZero, Q(1, 2)>>
      [] deg = 90 -> SQ(QOne)

\* ------------------------------------------------------------------------
\* Inputs
\* ------------------------------------------------------------------------
\* An entry is its item list; the items of a schedule are numbered
\* consecutively, as in the default schedule of config.py.
RECURSIVE MakeSchedule(_, _)
MakeSchedule(sizes, first) ==
    IF sizes = << >> THEN << >>
    ELSE <<[j \in 1..Head(sizes) |-> first + j - 1]>>
         \o MakeSchedule(Tail(sizes), first + Head(sizes))

Schedules ==
    UNION {{MakeSchedule(s, 1) : s \in [1..e -> 0..MaxVols]} : e \in 0..MaxEntries}

\* the padding fields of PosterConfig: the defaults of config.py, and a
\* tighter setting
Paddings ==
    {[horizontal_padding |-> Q(1, 2), column_spacing |-> Q(1, 2),
      vertical_padding |-> QInt(1)],
     [horizontal_padding |-> QZero, column_spacing |-> QInt(1),
      vertical_padding |-> Q(1, 2)]}

\* PosterConfig, the fields the renderer reads
PosterConfig(cols, width, spacing, pad, lineart_enabled) ==
    [cols |-> cols,
     width |-> width,
     spacing |-> spacing,
     horizontal_padding |-> pad.horizontal_padding,
     column_spacing |-> pad.column_spacing,
     vertical_padding |-> pad.vertical_padding,
     title_row_height |-> QInt(3),
     bottom_margin |-> QInt(1),
     dpi |-> 20,
     background_lineart_enabled |-> lineart_enabled,
     shape_type |-> "parallelogram",
     height |-> Q(5, 2),
     skew_angle |-> -15]

\* configurations with the layout fields varied and the line-art off
Configs ==
    {PosterConfig(c, w, sp, pad, FALSE) :
        c \in 1..MaxCols, w \in {Q(1, 2), Q(3, 2)}, sp \in {QZero, Q(1, 2)},
        pad \in Paddings}

\* PosterConfig(): the defaults of config.py, with the line-art switch as the
\* user set it
DefaultConfigs ==
    {PosterConfig(3, Q(3, 2), QZero,
                  [horizontal_padding |-> Q(1, 2), column_spacing |-> Q(1, 2),
                   vertical_padding |-> QInt(1)], en) : en \in BOOLEAN}

\* configurations of the default layout with the shape preset and the number
\* of columns as a caller may pass them: a type create_frame_from_preset does
\* not know, a width or height that is not positive, no column
ShapeConfigs ==
    {[PosterConfig(c, w, QZero,
                   [horizontal_padding |-> Q(1, 2), column_spacing |-> Q(1, 2),
                    vertical_padding |-> QInt(1)], FALSE)
        EXCEPT !.shape_type = t, !.height = h] :
        c \in {0, 3}, w \in {Q(3, 2), QZero, Q(-1, 2)},
        t \in {"parallelogram", "hexagon", "star"}, h \in {Q(5, 2), QZero}}

\* configurations of the default frame with the grid and the spacing varied
PlanConfigs ==
    {PosterConfig(c, Q(3, 2), sp,
                  [horizontal_padding |-> Q(1, 2), column_spacing |-> Q(1, 2),
                   vertical_padding |-> QInt(1)], FALSE) :
        c \in 1..MaxCols, sp \in {QZero, Q(1, 2)}}

\* cover_data of a preview before and after the covers were fetched
PlanCovers == {<< >>} \cup [{1} -> {"url"}]

\* cover_data: volume -> URL, for a subset of the first two volumes
CoverMaps == UNION {[s -> {"url"}] : s \in SUBSET {1, 2}}

VARIABLES
    config,              \* poster_config
    schedule,            \* schedule
    cover_data,          \* cover_data argument
    cover_urls,          \* config.cover_urls, the module-level table
    original_cover_urls, \* local of render_poster_to_buffer
    pc,                  \* position in render_poster_to_buffer
    error,               \* exception raised by the call, "none" if none
    dims,                \* result of calculate_layout_dimensions
    layers,              \* the layer list
    idx,                 \* index of the entry being rendered
    j,                   \* index of the item being rendered
    group,               \* per-entry locals: row, col, cell_x, scale, spacing
    lineart,             \* what render_background_lineart_layer met
    loads,               \* what load_image returned, per rendered item
    composited,          \* layers alpha-composited by composite_flat, in order
    frame_instance,      \* the Frame made by create_frame_from_preset
    prev_dims,           \* what calculate_layout_dimensions returned in the
                         \* previous render
    call,                \* a library call: the function and its arguments
    ret,                 \* its return value, once it returned
    fpc,                 \* position in get_volume_covers
    covers,              \* get_volume_covers: covers
    found_volumes,       \* get_volume_covers: found_volumes
    pos,                 \* get_volume_covers: index of the next entry of data
    requests,            \* the URLs requests.get was called with, in order
    editor,              \* the PosterEditor window: its fields and timers
    quiet,               \* time since the last change of a widget, in ticks
    rendered,            \* the calls of refresh_preview, in order
    threads,             \* the cover-fetch threads that are running
    signals,             \* the signals emitted to the GUI thread, in order
    writer               \* the OpenRasterWriter, its fields

\* the state of a library call and of the cover fetcher
gui_vars == <<editor, quiet, rendered, threads, signals>>

outside ==
    <<call, ret, fpc, covers, found_volumes, pos, requests, gui_vars, writer>>

vars == <<config, schedule, cover_data, cover_urls, original_cover_urls, pc,
          error, dims, layers, idx, j, group, lineart, loads, composited,
          frame_instance, prev_dims, outside>>


\* ------------------------------------------------------------------------
\* Pure functions of renderer.py
\* ------------------------------------------------------------------------
\* str.join of the numbers of a list with ", "
RECURSIVE JoinComma(_)
JoinComma(vs) ==
    IF vs = << >> THEN << >>
    ELSE IF Len(vs) = 1 THEN <<ToString(vs[1])>>
    ELSE <<ToString(vs[1]), ", ">> \o JoinComma(Tail(vs))

\* format_volume_text with an entry of three or more joined by commas alone
format_volume_text_commas(vols) ==
    IF Len(vols) = 1 THEN
        [raised |-> "none", text |-> <<"Volume ", ToString(vols[1])>>]
    ELSE IF Len(vols) = 2 THEN
        [raised |-> "none",
         text |-> <<"Volumes ", ToString(vols[1]), " & ", ToString(vols[2])>>]
    ELSE IF Len(vols) = 0 THEN
        [raised |-> "IndexError", text |-> << >>]
    ELSE
        [raised |-> "none", text |-> <<"Volumes ">> \o JoinComma(vols)]

\* format_volume_text: the text as a sequence of pieces; vols[-1] of an
\* empty list raises IndexError
format_volume_text(vols) ==
    IF Len(vols) = 1 THEN
        [raised |-> "none", text |-> <<"Volume ", ToString(vols[1])>>]
    ELSE IF Len(vols) = 2 THEN
        [raised |-> "none",
         text |-> <<"Volumes ", ToString(vols[1]), " & ", ToString(vols[2])>>]
    ELSE IF Len(vols) = 0 THEN
        [raised |-> "IndexError", text |-> << >>]
    ELSE
        [raised |-> "none",
         text |-> <<"Volumes ">> \o JoinComma(SubSeq(vols, 1, Len(vols) - 1))
                  \o <<" & ", ToString(vols[Len(vols)])>>]

\* calculate_scale_factor without the cap at 1.0
calculate_scale_factor_uncapped(num_vols, frame_width, frame_spacing) ==
    LET reference_width == QAdd(QMul(QInt(2), frame_width), frame_spacing)
        total_unscaled_width ==
            QAdd(QMul(QInt(num_vols), frame_width),
                 QMul(QInt(num_vols - 1), frame_spacing))
    IN  IF num_vols > 0 /\ QLt(QZero, total_unscaled_width)
        THEN QDiv(reference_width, total_unscaled_width)
        ELSE QOne

calculate_scale_factor(num_vols, frame_width, frame_spacing) ==
    LET reference_width == QAdd(QMul(QInt(2), frame_width), frame_spacing)
        total_unscaled_width ==
            QAdd(QMul(QInt(num_vols), frame_width),
                 QMul(QInt(num_vols - 1), frame_spacing))
        scale_factor ==
            IF QLt(QZero, total_unscaled_width)
            THEN QDiv(reference_width, total_unscaled_width)
            ELSE QOne
    IN  IF num_vols > 0 THEN QMin(scale_factor, QOne) ELSE QOne

\* the loop of calculate_max_item_width without the clamp of 3+ items
RECURSIVE MaxItemWidthLoop_unclamped(_, _, _, _)
MaxItemWidthLoop_unclamped(sched, frame_width, frame_spacing, max_item_width) ==
    IF sched = << >> THEN max_item_width
    ELSE
        LET num_vols == Len(Head(sched))
            item_width ==
                QAdd(QMul(QInt(num_vols), frame_width),
                     QMul(QInt(num_vols - 1), frame_spacing))
        IN  MaxItemWidthLoop_unclamped(Tail(sched), frame_width, frame_spacing,
                IF num_vols > 0 THEN QMax(max_item_width, item_width)
                ELSE max_item_width)

\* the loop of calculate_max_item_width, max_item_width being the accumulator
RECURSIVE MaxItemWidthLoop(_, _, _, _)
MaxItemWidthLoop(sched, frame_width, frame_spacing, max_item_width) ==
    IF sched = << >> THEN max_item_width
    ELSE
        LET num_vols == Len(Head(sched))
            reference_width == QAdd(QMul(QInt(2), frame_width), frame_spacing)
            item_width ==
                IF num_vols <= 2
                THEN QAdd(QMul(QInt(num_vols), frame_width),
                          QMul(QInt(num_vols - 1), frame_spacing))
                ELSE reference_width
        IN  MaxItemWidthLoop(Tail(sched), frame_width, frame_spacing,
                IF num_vols > 0 THEN QMax(max_item_width, item_width)
                ELSE max_item_width)

\* the width of the last entry alone instead of the widest
calculate_max_item_width_last(sched, frame_width, frame_spacing) ==
    IF sched = << >> THEN QZero
    ELSE MaxItemWidthLoop(<<sched[Len(sched)]>>, frame_width, frame_spacing,
                          QZero)

calculate_max_item_width(sched, frame_width, frame_spacing) ==
    MaxItemWidthLoop(sched, frame_width, frame_spacing, QZero)

\* content_rows rounded down instead of up
ContentRows_floor(num_items, cols) == num_items \div cols

\* content_rows = (num_items + config.cols - 1) // config.cols
ContentRows(num_items, cols) == (num_items + cols - 1) \div cols

\* cell_height with the bottom margin left in the content height
CellHeight_nomargin(fig_height, cfg, content_rows) ==
    LET total_content_height == QSub(fig_height, cfg.title_row_height)
    IN  QDiv(QSub(total_content_height,
                  QMul(QInt(content_rows - 1), cfg.vertical_padding)),
             QInt(content_rows))

\* cell_height, for content_rows > 0 (renderer.py 91-92)
CellHeight(fig_height, cfg, content_rows) ==
    LET total_content_height ==
            QSub(QSub(fig_height, cfg.title_row_height), cfg.bottom_margin)
    IN  QDiv(QSub(total_content_height,
                  QMul(QInt(content_rows - 1), cfg.vertical_padding)),
             QInt(content_rows))

\* calculate_layout_dimensions reading the module-level cover table: a cell
\* is widened by one unit when the table holds a cover
calculate_layout_dimensions_covers(sched, cfg) ==
    LET num_items == Len(sched)
        content_rows ==
            IF cfg.cols = 0 THEN 0 ELSE ContentRows(num_items, cfg.cols)
        max_item_width ==
            QAdd(calculate_max_item_width(sched, cfg.width, cfg.spacing),
                 IF cover_urls = << >> THEN QZero ELSE QOne)
        min_cell_width ==
            QAdd(max_item_width, QMul(QInt(2), cfg.horizontal_padding))
        fig_width ==
            QAdd(QMul(QInt(cfg.cols), min_cell_width),
                 QMul(QInt(cfg.cols - 1), cfg.column_spacing))
        fig_height == QAdd(cfg.title_row_height, QInt(content_rows * 5))
        raised == cfg.cols = 0 \/ content_rows = 0
    IN  [raised |-> IF raised THEN "ZeroDivisionError" ELSE "none",
         content_rows |-> content_rows,
         max_item_width |-> max_item_width,
         min_cell_width |-> min_cell_width,
         fig_width |-> fig_width,
         fig_height |-> fig_height,
         cell_width |-> min_cell_width,
         cell_height |->
            IF raised THEN QZero
            ELSE CellHeight(fig_height, cfg, content_rows)]

\* calculate_layout_dimensions: its locals, and the exception it raises if any.
\* Dividing by cols = 0 or by content_rows = 0 raises ZeroDivisionError.
calculate_layout_dimensions(sched, cfg) ==
    LET num_items == Len(sched)
        content_rows ==
            IF cfg.cols = 0 THEN 0 ELSE ContentRows(num_items, cfg.cols)
        max_item_width == calculate_max_item_width(sched, cfg.width, cfg.spacing)
        min_cell_width ==
            QAdd(max_item_width, QMul(QInt(2), cfg.horizontal_padding))
        fig_width ==
            QAdd(QMul(QInt(cfg.cols), min_cell_width),
                 QMul(QInt(cfg.cols - 1), cfg.column_spacing))
        fig_height == QAdd(cfg.title_row_height, QInt(content_rows * 5))
        raised == cfg.cols = 0 \/ content_rows = 0
    IN  [raised |-> IF raised THEN "ZeroDivisionError" ELSE "none",
         content_rows |-> content_rows,
         max_item_width |-> max_item_width,
         min_cell_width |-> min_cell_width,
         fig_width |-> fig_width,
         fig_height |-> fig_height,
         cell_width |-> min_cell_width,
         cell_height |->
            IF raised THEN QZero
            ELSE CellHeight(fig_height, cfg, content_rows)]

\* dims before calculate_layout_dimensions has run
NoDims ==
    [raised |-> "none", content_rows |-> 0, max_item_width |-> QZero,
     min_cell_width |-> QZero, fig_width |-> QZero, fig_height |-> QZero,
     cell_width |-> QZero, cell_height |-> QZero]

\* row = idx // cols, col = idx % cols
GridCell(i, cols) == [row |-> i \div cols, col |-> i % cols]

\* cell_x = col * (cell_width + column_spacing) + cell_width / 2
CellX(col, cfg, d) ==
    QAdd(QMul(QInt(col), QAdd(d.cell_width, cfg.column_spacing)),
         QDiv(d.cell_width, QInt(2)))

\* cell_y = start_y - row * (cell_height + vertical_padding) - cell_height / 2
CellY(row, cfg, d) ==
    LET start_y == QSub(d.fig_height, cfg.title_row_height)
        y_offset == QMul(QInt(row), QAdd(d.cell_height, cfg.vertical_padding))
    IN  QSub(QSub(start_y, y_offset), QDiv(d.cell_height, QInt(2)))

\* the base spacing kept between scaled frames
ScaledSpacing_unscaled(num_vols, frame_width, frame_spacing, scaled_frame_width) ==
    IF num_vols - 1 > 0 THEN frame_spacing ELSE QZero

\* scaled_frame_spacing (renderer.py 485-492)
ScaledSpacing(num_vols, frame_width, frame_spacing, scaled_frame_width) ==
    LET reference_width == QAdd(QMul(QInt(2), frame_width), frame_spacing)
        total_scaled_frames_width == QMul(QInt(num_vols), scaled_frame_width)
        num_gaps == num_vols - 1
    IN  IF num_gaps > 0
        THEN QDiv(QSub(reference_width, total_scaled_frames_width),
                  QInt(num_gaps))
        ELSE QZero

\* the per-entry locals of the render loop (renderer.py 448-492)
EntryGroup(cfg, d, i, vols) ==
    LET row == GridCell(i, cfg.cols).row
        col == GridCell(i, cfg.cols).col
        cell_x == CellX(col, cfg, d)
        cell_y == CellY(row, cfg, d)
        num_vols == Len(vols)
        scale_factor == calculate_scale_factor(num_vols, cfg.width, cfg.spacing)
        scaled_frame_width == QMul(cfg.width, scale_factor)
        scaled_frame_spacing ==
            ScaledSpacing(num_vols, cfg.width, cfg.spacing, scaled_frame_width)
    IN  [row |-> row, col |-> col, cell_x |-> cell_x, cell_y |-> cell_y,
         num_vols |-> num_vols, scale_factor |-> scale_factor,
         scaled_frame_width |-> scaled_frame_width,
         scaled_frame_spacing |-> scaled_frame_spacing]

NoGroup ==
    [row |-> 0, col |-> 0, cell_x |-> QZero, cell_y |-> QZero, num_vols |-> 0,
     scale_factor |-> QOne, scaled_frame_width |-> QZero,
     scaled_frame_spacing |-> QZero]

\* x_center of item k of the current group (renderer.py 496-498)
ItemXCenter(g, k) ==
    LET total_width ==
            QAdd(QMul(QInt(g.num_vols), g.scaled_frame_width),
                 QMul(QInt(g.num_vols - 1), g.scaled_frame_spacing))
        start_x == QSub(g.cell_x, QDiv(total_width, QInt(2)))
    IN  QAdd(QAdd(start_x,
                  QMul(QInt(k), QAdd(g.scaled_frame_width, g.scaled_frame_spacing))),
             QDiv(g.scaled_frame_width, QInt(2)))

\* A layer: what it shows, the entry and item it belongs to (-1 if none), the
\* grid cell, the centre and width of its frame and, for a cover, the volume
\* and whether it went through the mask
Layer(kind, e, i, row, col, x, w, vol, masked) ==
    [kind |-> kind, entry |-> e, item |-> i, row |-> row, col |-> col,
     x |-> x, w |-> w, vol |-> vol, masked |-> masked]

PlainLayer(kind) == Layer(kind, -1, -1, -1, -1, QZero, QZero, -1, FALSE)

TextLayer(kind, e, g) ==
    Layer(kind, e, -1, g.row, g.col, g.cell_x, QZero, -1, FALSE)

\* the border drawn below the shadow
ItemLayers_border_first(e, k, g, vol, outcome) ==
    LET x == ItemXCenter(g, k)
        w == g.scaled_frame_width
    IN  <<Layer("border", e, k, g.row, g.col, x, w, vol, FALSE),
          Layer("shadow", e, k, g.row, g.col, x, w, vol, FALSE)>>
        \o (IF outcome = "ok"
            THEN <<Layer("cover", e, k, g.row, g.col, x, w, vol, TRUE)>>
            ELSE << >>)

\* an item without an image skipped altogether
ItemLayers_skip_unloaded(e, k, g, vol, outcome) ==
    LET x == ItemXCenter(g, k)
        w == g.scaled_frame_width
    IN  IF outcome = "ok"
        THEN <<Layer("shadow", e, k, g.row, g.col, x, w, vol, FALSE),
               Layer("border", e, k, g.row, g.col, x, w, vol, FALSE),
               Layer("cover", e, k, g.row, g.col, x, w, vol, TRUE)>>
        ELSE << >>

\* the cover appended as rendered, without the mask
ItemLayers_unmasked(e, k, g, vol, outcome) ==
    LET x == ItemXCenter(g, k)
        w == g.scaled_frame_width
    IN  <<Layer("shadow", e, k, g.row, g.col, x, w, vol, FALSE),
          Layer("border", e, k, g.row, g.col, x, w, vol, FALSE)>>
        \o (IF outcome = "ok"
            THEN <<Layer("cover", e, k, g.row, g.col, x, w, vol, FALSE)>>
            ELSE << >>)

\* the layers one item appends (renderer.py 504-530): shadow, border and, if
\* the image loaded, the cover; render_to_pil always returns a mask image, so
\* the cover goes through the mask
ItemLayers(e, k, g, vol, outcome) ==
    LET x == ItemXCenter(g, k)
        w == g.scaled_frame_width
    IN  <<Layer("shadow", e, k, g.row, g.col, x, w, vol, FALSE),
          Layer("border", e, k, g.row, g.col, x, w, vol, FALSE)>>
        \o (IF outcome = "ok"
            THEN <<Layer("cover", e, k, g.row, g.col, x, w, vol, TRUE)>>
            ELSE << >>)

\* load_image(cover_data.get(vol, ""), vol): nothing without a URL; with one,
\* the cached or downloaded image, or nothing when the download fails or the
\* cached file is corrupt and cannot be fetched again
LoadOutcomes(cd, vol) ==
    IF vol \in DOMAIN cd /\ cd[vol] # "" THEN {"ok", "failed"} ELSE {"no_url"}

\* render_background_lineart_layer: None when disabled, when the file is
\* missing and when opening or resizing it raises
LineartOutcomes(cfg) ==
    IF cfg.background_lineart_enabled THEN {"missing", "unreadable", "ok"}
    ELSE {"disabled"}

\* ------------------------------------------------------------------------
\* Pixels of a cover layer, on the pixel row through the centre of its frame.
\* A pixel is <<r, g, b, a>>.
\* ------------------------------------------------------------------------
Transparent == <<0, 0, 0, 0>>

\* canvas_width = int(fig_width * pixels_per_unit)
CanvasWidth(cfg, d) == QTrunc(QMul(d.fig_width, QInt(cfg.dpi)))

\* mask_img of Frame.render_to_pil: the polygon of the frame filled with
\* opaque white on transparent black.  On the centre row a rectangle spans
\* x_center -/+ scaled_width/2, in pixels after the scaling by pixels_per_unit.
MaskPixel(l, cfg, p) ==
    LET left_px == QTrunc(QMul(QSub(l.x, QDiv(l.w, QInt(2))), QInt(cfg.dpi)))
        right_px == QTrunc(QMul(QAdd(l.x, QDiv(l.w, QInt(2))), QInt(cfg.dpi)))
    IN  IF left_px <= p /\ p <= right_px
        THEN <<255, 255, 255, 255>> ELSE Transparent

\* mask_img.convert('L'): the luma of the colour bands, the alpha band dropped
ConvertL(px) == (px[1] * 299 + px[2] * 587 + px[3] * 114) \div 1000

\* the image of a volume, as one colour per volume; the images of even
\* volumes are translucent RGBA images, those of odd volumes opaque
ImagePixel(vol) ==
    <<(vol * 40) % 256, 128, 255 - ((vol * 40) % 256),
      IF vol % 2 = 0 THEN 128 ELSE 255>>

\* cover_img of render_volume_image_layer: the image resized to 1.05 times the
\* width of the bounding box of the frame and pasted centred on x_center
CoverPixel(l, cfg, p) ==
    LET target_width_px ==
            QTrunc(QMul(QMul(l.w, QInt(cfg.dpi)), Q(105, 100)))
        x_px == QTrunc(QSub(QMul(l.x, QInt(cfg.dpi)),
                            Q(target_width_px, 2)))
    IN  IF x_px <= p /\ p < x_px + target_width_px
        THEN ImagePixel(l.vol) ELSE Transparent

\* Image.composite(image1, image2, mask): every band blended by the mask
Composite(px1, px2, m) ==
    [b \in 1..4 |-> (px1[b] * m + px2[b] * (255 - m)) \div 255]

\* the pixel of a cover layer of the list: cover_masked if it went through
\* the mask (renderer.py 523-528), cover_img otherwise (renderer.py 530)
LayerPixel(l, cfg, p) ==
    IF l.masked
    THEN Composite(CoverPixel(l, cfg, p), Transparent,
                   ConvertL(MaskPixel(l, cfg, p)))
    ELSE CoverPixel(l, cfg, p)

\* composite_flat: the layers composited onto the result, in the order applied
RECURSIVE composite_flat(_)
composite_flat(ls) ==
    IF ls = << >> THEN << >>
    ELSE <<Head(ls)>> \o composite_flat(Tail(ls))


\* ------------------------------------------------------------------------
\* Frames (frame.py).  A vertex is <<x, y>> in figure units, y up.
\* ------------------------------------------------------------------------
ShapeTypes == {"parallelogram", "rhombus", "rectangle", "hexagon"}

\* create_frame_from_preset: the Frame instance as a record; a type that is
\* not recognised gives a ParallelogramFrame
create_frame_from_preset(preset) ==
    [type |-> IF preset.type \in ShapeTypes THEN preset.type
              ELSE "parallelogram",
     width |-> preset.width,
     height |-> preset.height,
     spacing |-> preset.spacing,
     skew_angle |-> preset.skew_angle,
     rotation_angle |-> preset.rotation_angle]

\* poster_config.shape_preset
ShapePreset(cfg) ==
    [type |-> cfg.shape_type, width |-> cfg.width, height |-> cfg.height,
     spacing |-> cfg.spacing, skew_angle |-> cfg.skew_angle,
     rotation_angle |-> 0]

\* frame_instance before create_frame_from_preset has run
NoFrame ==
    [type |-> "unset", width |-> QZero, height |-> QZero, spacing |-> QZero,
     skew_angle |-> 0, rotation_angle |-> 0]

\* the parallelogram with both edges shifted the same way
ParallelogramVertices_sheared(skew_angle, x, y, w, h) ==
    LET half_w == SHalf(w)
        half_h == SHalf(h)
        skew_offset == SMul(half_h, Tan(skew_angle))
    IN  <<<<SSub(SSub(x, half_w), skew_offset), SSub(y, half_h)>>,
          <<SSub(SAdd(x, half_w), skew_offset), SSub(y, half_h)>>,
          <<SSub(SAdd(x, half_w), skew_offset), SAdd(y, half_h)>>,
          <<SSub(SSub(x, half_w), skew_offset), SAdd(y, half_h)>>>>

\* ParallelogramFrame.calculate_vertices
ParallelogramVertices(skew_angle, x, y, w, h) ==
    LET half_w == SHalf(w)
        half_h == SHalf(h)
        skew_offset == SMul(half_h, Tan(skew_angle))
    IN  <<<<SSub(SSub(x, half_w), skew_offset), SSub(y, half_h)>>,
          <<SSub(SAdd(x, half_w), skew_offset), SSub(y, half_h)>>,
          <<SAdd(SAdd(x, half_w), skew_offset), SAdd(y, half_h)>>,
          <<SAdd(SSub(x, half_w), skew_offset), SAdd(y, half_h)>>>>

\* RhombusFrame.calculate_vertices: the diamond, rotated about its centre if
\* rotation_angle is not 0
RhombusVertices(rotation_angle, x, y, w, h) ==
    LET half_w == SHalf(w)
        half_h == SHalf(h)
        vertices == <<<<x, SAdd(y, half_h)>>, <<SAdd(x, half_w), y>>,
                      <<x, SSub(y, half_h)>>, <<SSub(x, half_w), y>>>>
        cos_a == Cos(rotation_angle)
        sin_a == Sin(rotation_angle)
        Rotate(v) ==
            LET dx == SSub(v[1], x)
                dy == SSub(v[2], y)
            IN  <<SAdd(SSub(SMul(dx, cos_a), SMul(dy, sin_a)), x),
                  SAdd(SAdd(SMul(dx, sin_a), SMul(dy, cos_a)), y)>>
    IN  IF rotation_angle # 0
        THEN [n \in 1..4 |-> Rotate(vertices[n])]
        ELSE vertices

\* RectangleFrame.calculate_vertices
RectangleVertices(x, y, w, h) ==
    <<<<SSub(x, SHalf(w)), SSub(y, SHalf(h))>>,
      <<SAdd(x, SHalf(w)), SSub(y, SHalf(h))>>,
      <<SAdd(x, SHalf(w)), SAdd(y, SHalf(h))>>,
      <<SSub(x, SHalf(w)), SAdd(y, SHalf(h))>>>>

\* the half-width of the hexagon taken from the height alone
HexagonHalfWidth_unbounded(w, half_h) == SDivSqrt3(half_h)

\* half_w = min(scaled_width / 2, half_h / sqrt3)
HexagonHalfWidth(w, half_h) == SMin(SHalf(w), SDivSqrt3(half_h))

\* HexagonFrame.calculate_vertices
HexagonVertices(x, y, w, h) ==
    LET half_h == SHalf(h)
        half_w == HexagonHalfWidth(w, half_h)
        flat_edge_y == SHalf(half_h)
    IN  <<<<x, SAdd(y, half_h)>>,
          <<SAdd(x, half_w), SAdd(y, flat_edge_y)>>,
          <<SAdd(x, half_w), SSub(y, flat_edge_y)>>,
          <<x, SSub(y, half_h)>>,
          <<SSub(x, half_w), SSub(y, flat_edge_y)>>,
          <<SSub(x, half_w), SAdd(y, flat_edge_y)>>>>

\* frame.calculate_vertices(x_center, y_center, scaled_width, scaled_height),
\* the arguments being rationals
calculate_vertices(frame, x_center, y_center, scaled_width, scaled_height) ==
    LET x == SQ(x_center)
        y == SQ(y_center)
        w == SQ(scaled_width)
        h == SQ(scaled_height)
    IN  CASE frame.type = "parallelogram" ->
                ParallelogramVertices(frame.skew_angle, x, y, w, h)
          [] frame.type = "rhombus" ->
                RhombusVertices(frame.rotation_angle, x, y, w, h)
          [] frame.type = "rectangle" -> RectangleVertices(x, y, w, h)
          [] frame.type = "hexagon" -> HexagonVertices(x, y, w, h)

\* ------------------------------------------------------------------------
\* Stagger strategies (stagger.py)
\* ------------------------------------------------------------------------
\* create_stagger_from_preset: the strategy as a record; "none" and every
\* type that is not recognised give a NoStagger
create_stagger_from_preset(preset) ==
    [type |-> IF preset.type \in {"alternating", "staircase"}
              THEN preset.type ELSE "none",
     offset |-> preset.offset]

\* AlternatingStagger.calculate_offset with the mean of an even group for
\* every group
AlternatingOffset_uncentred(offset, index, total_items) ==
    IF index % 2 = 0 THEN QSub(QZero, offset) ELSE offset

\* AlternatingStagger.calculate_offset
AlternatingOffset(offset, index, total_items) ==
    LET base_offset == IF index % 2 = 0 THEN QSub(QZero, offset) ELSE offset
        mean_offset == IF total_items % 2 = 0 THEN QZero
                       ELSE QDiv(QSub(QZero, offset), QInt(total_items))
    IN  QSub(base_offset, mean_offset)

\* StaircaseStagger.calculate_offset with the ramp starting at 0
StaircaseOffset_uncentred(offset, index, total_items) ==
    QMul(QInt(index), offset)

\* StaircaseStagger.calculate_offset
StaircaseOffset(offset, index, total_items) ==
    LET center_index == Q(total_items - 1, 2)
        relative_position == QSub(QInt(index), center_index)
    IN  QMul(relative_position, offset)

\* strategy.calculate_offset(index, total_items)
calculate_offset(strategy, index, total_items) ==
    CASE strategy.type = "alternating" ->
            AlternatingOffset(strategy.offset, index, total_items)
      [] strategy.type = "staircase" ->
            StaircaseOffset(strategy.offset, index, total_items)
      [] strategy.type = "none" -> QZero


\* ------------------------------------------------------------------------
\* render_poster_to_buffer, step by step
\* ------------------------------------------------------------------------
\* no editor window is open
NoEditor ==
    [widgets |-> 0, config |-> 0, cover_data |-> << >>, is_loading |-> FALSE,
     preview_timer |-> -1, loading_timer |-> -1, panel |-> "empty"]

GuiOff ==
    /\ editor = NoEditor
    /\ quiet = 0
    /\ rendered = << >>
    /\ threads = << >>
    /\ signals = << >>

\* no OpenRasterWriter was made
NoWriter ==
    [elements |-> << >>, current_stack |-> 0, group_stack |-> << >>,
     layer_counter |-> 0, data_files |-> << >>]

WriterOff == writer = NoWriter

\* no library call and no cover fetch is running
NoCall == [fn |-> "none"]
NoRet == [done |-> FALSE, value |-> << >>]
OutsideIdle ==
    /\ call = NoCall
    /\ ret = NoRet
    /\ fpc = "off"
    /\ covers = << >>
    /\ found_volumes = {}
    /\ pos = 0
    /\ requests = << >>
    /\ GuiOff
    /\ WriterOff

InitWith(configs, cover_maps) ==
    /\ OutsideIdle
    /\ frame_instance = NoFrame
    /\ prev_dims = NoDims
    /\ config \in configs
    /\ schedule \in Schedules
    /\ cover_data \in cover_maps
    /\ cover_urls = << >>
    /\ original_cover_urls = << >>
    /\ pc = "idle"
    /\ error = "none"
    /\ dims = NoDims
    /\ layers = << >>
    /\ idx = 0
    /\ j = 0
    /\ group = NoGroup
    /\ lineart = "unset"
    /\ loads = << >>
    /\ composited = << >>

\* a render of the default configuration, covers and line-art as they come
Init == InitWith(DefaultConfigs, CoverMaps)

\* a render with every layout field varied, no cover URL and no line-art
InitLayout == InitWith(Configs, {<< >>})

\* original_cover_urls = cover_urls.copy()
SaveCoverUrls ==
    /\ pc = "idle"
    /\ original_cover_urls' = cover_urls
    /\ pc' = "clear"
    /\ UNCHANGED <<outside, prev_dims, frame_instance>>
    /\ UNCHANGED <<config, schedule, cover_data, cover_urls, error, dims,
                   layers, idx, j, group, lineart, loads, composited>>

\* cover_urls.clear()
ClearCoverUrls ==
    /\ pc = "clear"
    /\ cover_urls' = << >>
    /\ pc' = "update"
    /\ UNCHANGED <<outside, prev_dims, frame_instance>>
    /\ UNCHANGED <<config, schedule, cover_data, original_cover_urls, error,
                   dims, layers, idx, j, group, lineart, loads, composited>>

\* cover_urls.update(cover_data)
UpdateCoverUrls ==
    /\ pc = "update"
    /\ cover_urls' =
          [v \in DOMAIN cover_urls \cup DOMAIN cover_data |->
              IF v \in DOMAIN cover_data THEN cover_data[v] ELSE cover_urls[v]]
    /\ pc' = "layout"
    /\ UNCHANGED <<outside, prev_dims, frame_instance>>
    /\ UNCHANGED <<config, schedule, cover_data, original_cover_urls, error,
                   dims, layers, idx, j, group, lineart, loads, composited>>

\* the layout dimensions, the frame instance and the background layer; an
\* exception of calculate_layout_dimensions leaves the try block for the
\* finally clause
Layout ==
    /\ pc = "layout"
    /\ dims' = calculate_layout_dimensions(schedule, config)
    /\ IF dims'.raised # "none"
       THEN /\ error' = dims'.raised
            /\ pc' = "restore_clear"
            /\ UNCHANGED <<layers, frame_instance>>
       ELSE /\ frame_instance' = create_frame_from_preset(ShapePreset(config))
            /\ layers' = <<PlainLayer("background")>>
            /\ pc' = "lineart"
            /\ UNCHANGED error
    /\ UNCHANGED <<outside, prev_dims>>
    /\ UNCHANGED <<config, schedule, cover_data, cover_urls,
                   original_cover_urls, idx, j, group, lineart, loads,
                   composited>>

\* the line-art layer, appended only if one was produced
LineArt ==
    /\ pc = "lineart"
    /\ \E outcome \in LineartOutcomes(config) :
          /\ lineart' = outcome
          /\ layers' = IF outcome = "ok"
                       THEN Append(layers, PlainLayer("lineart"))
                       ELSE layers
    /\ pc' = "title"
    /\ UNCHANGED <<outside, prev_dims, frame_instance>>
    /\ UNCHANGED <<config, schedule, cover_data, cover_urls,
                   original_cover_urls, error, dims, idx, j, group, loads,
                   composited>>

\* the title layer, then the loop over the schedule starts
Title ==
    /\ pc = "title"
    /\ layers' = Append(layers, PlainLayer("title"))
    /\ idx' = 0
    /\ pc' = IF Len(schedule) > 0 THEN "entry" ELSE "flatten"
    /\ UNCHANGED <<outside, prev_dims, frame_instance>>
    /\ UNCHANGED <<config, schedule, cover_data, cover_urls,
                   original_cover_urls, error, dims, j, group, lineart, loads,
                   composited>>

\* one entry: its cell, its date layer, its caption layer, its scale and
\* spacing.  format_volume_text raises after the date layer was appended.
Entry ==
    /\ pc = "entry"
    /\ LET vols == schedule[idx + 1]
           g == EntryGroup(config, dims, idx, vols)
           caption == format_volume_text(vols)
       IN  /\ group' = g
           /\ IF caption.raised # "none"
              THEN /\ layers' = Append(layers, TextLayer("date", idx, g))
                   /\ error' = caption.raised
                   /\ pc' = "restore_clear"
                   /\ UNCHANGED <<idx, j>>
              ELSE /\ layers' = layers \o <<TextLayer("date", idx, g),
                                            TextLayer("caption", idx, g)>>
                   /\ UNCHANGED error
                   /\ j' = 0
                   /\ IF Len(vols) > 0
                      THEN pc' = "item" /\ UNCHANGED idx
                      ELSE /\ idx' = idx + 1
                           /\ pc' = IF idx + 1 < Len(schedule)
                                    THEN "entry" ELSE "flatten"
    /\ UNCHANGED <<outside, prev_dims, frame_instance>>
    /\ UNCHANGED <<config, schedule, cover_data, cover_urls,
                   original_cover_urls, dims, lineart, loads, composited>>

\* one item: its shadow, its border and, if load_image returned an image,
\* its masked cover
Item ==
    /\ pc = "item"
    /\ LET vol == schedule[idx + 1][j + 1]
       IN  \E outcome \in LoadOutcomes(cover_data, vol) :
              /\ layers' = layers \o ItemLayers(idx, j, group, vol, outcome)
              /\ loads' = [p \in DOMAIN loads \cup {<<idx, j>>} |->
                              IF p = <<idx, j>> THEN outcome ELSE loads[p]]
    /\ IF j + 1 < group.num_vols
       THEN /\ j' = j + 1
            /\ UNCHANGED <<idx, pc>>
       ELSE /\ idx' = idx + 1
            /\ pc' = IF idx + 1 < Len(schedule) THEN "entry" ELSE "flatten"
            /\ UNCHANGED j
    /\ UNCHANGED <<outside, prev_dims, frame_instance>>
    /\ UNCHANGED <<config, schedule, cover_data, cover_urls,
                   original_cover_urls, error, dims, group, lineart,
                   composited>>

\* composite_flat over the layer list, then the buffer is written
Flatten ==
    /\ pc = "flatten"
    /\ composited' = composite_flat(layers)
    /\ pc' = "restore_clear"
    /\ UNCHANGED <<outside, prev_dims, frame_instance>>
    /\ UNCHANGED <<config, schedule, cover_data, cover_urls,
                   original_cover_urls, error, dims, layers, idx, j, group,
                   lineart, loads>>

\* finally without its clear: the table keeps what the render put in it
RestoreClear_kept ==
    /\ pc = "restore_clear"
    /\ pc' = "restore_update"
    /\ UNCHANGED <<outside, prev_dims, frame_instance>>
    /\ UNCHANGED <<config, schedule, cover_data, cover_urls,
                   original_cover_urls, error, dims, layers, idx, j, group,
                   lineart, loads, composited>>

\* finally: cover_urls.clear()
RestoreClear ==
    /\ pc = "restore_clear"
    /\ cover_urls' = << >>
    /\ pc' = "restore_update"
    /\ UNCHANGED <<outside, prev_dims, frame_instance>>
    /\ UNCHANGED <<config, schedule, cover_data, original_cover_urls, error,
                   dims, layers, idx, j, group, lineart, loads, composited>>

\* finally: cover_urls.update(original_cover_urls); the call returns or raises
RestoreUpdate ==
    /\ pc = "restore_update"
    /\ cover_urls' =
          [v \in DOMAIN cover_urls \cup DOMAIN original_cover_urls |->
              IF v \in DOMAIN original_cover_urls
              THEN original_cover_urls[v] ELSE cover_urls[v]]
    /\ pc' = "done"
    /\ UNCHANGED <<outside, prev_dims, frame_instance>>
    /\ UNCHANGED <<config, schedule, cover_data, original_cover_urls, error,
                   dims, layers, idx, j, group, lineart, loads, composited>>

Next ==
    \/ SaveCoverUrls
    \/ ClearCoverUrls
    \/ UpdateCoverUrls
    \/ Layout
    \/ LineArt
    \/ Title
    \/ Entry
    \/ Item
    \/ Flatten
    \/ RestoreClear
    \/ RestoreUpdate

\* a render of a configuration that may carry a configuration error
InitConfig == InitWith(ShapeConfigs, {<< >>})

Spec == Init /\ [][Next]_vars

ConfigSpec == InitConfig /\ [][Next]_vars

\* the entries of the module-level table before a render: the manual
\* overrides of config.py 30, none by default
ManualUrls == UNION {[vs -> {"manual"}] : vs \in SUBSET {1, 3}}

\* a render called while the module-level table holds manual overrides
InitSwap ==
    /\ OutsideIdle
    /\ frame_instance = NoFrame
    /\ prev_dims = NoDims
    /\ config \in DefaultConfigs
    /\ schedule \in Schedules
    /\ cover_data \in CoverMaps
    /\ cover_urls \in ManualUrls
    /\ original_cover_urls = << >>
    /\ pc = "idle"
    /\ error = "none"
    /\ dims = NoDims
    /\ layers = << >>
    /\ idx = 0
    /\ j = 0
    /\ group = NoGroup
    /\ lineart = "unset"
    /\ loads = << >>
    /\ composited = << >>

SwapSpec == InitSwap /\ [][Next]_vars

\* the caller renders again: the same configuration and schedule, the cover
\* data as it is by then (main_window.py refresh_preview)
RenderAgain ==
    /\ pc = "done"
    /\ prev_dims' = dims
    /\ cover_data' \in PlanCovers
    /\ pc' = "idle"
    /\ error' = "none"
    /\ dims' = NoDims
    /\ layers' = << >>
    /\ idx' = 0
    /\ j' = 0
    /\ group' = NoGroup
    /\ lineart' = "unset"
    /\ loads' = << >>
    /\ composited' = << >>
    /\ frame_instance' = NoFrame
    /\ UNCHANGED <<config, schedule, cover_urls, original_cover_urls, outside>>

InitPlan == InitWith(PlanConfigs, PlanCovers)

NextPlan ==
    \/ Next
    \/ RenderAgain

PlanSpec == InitPlan /\ [][NextPlan]_vars

\* no render is running
RenderOff ==
    /\ config = PosterConfig(3, Q(3, 2), QZero,
                             [horizontal_padding |-> Q(1, 2),
                              column_spacing |-> Q(1, 2),
                              vertical_padding |-> QInt(1)], FALSE)
    /\ schedule = << >>
    /\ cover_data = << >>
    /\ cover_urls = << >>
    /\ original_cover_urls = << >>
    /\ pc = "off"
    /\ error = "none"
    /\ dims = NoDims
    /\ layers = << >>
    /\ idx = 0
    /\ j = 0
    /\ group = NoGroup
    /\ lineart = "unset"
    /\ loads = << >>
    /\ composited = << >>
    /\ frame_instance = NoFrame
    /\ prev_dims = NoDims

\* what a library call leaves alone
render_vars ==
    <<config, schedule, cover_data, cover_urls, original_cover_urls, pc,
      error, dims, layers, idx, j, group, lineart, loads, composited,
      frame_instance, prev_dims>>

\* what a call of the fetcher or of a pure function leaves alone
elsewhere == <<render_vars, gui_vars, writer>>

\* ------------------------------------------------------------------------
\* format_volume_text called on a list of item numbers, in any order
\* ------------------------------------------------------------------------
CaptionCalls ==
    {[fn |-> "format_volume_text", vols |-> v] :
        v \in UNION {[1..n -> {5, 8, 10, 12}] : n \in 0..MaxCaptionVols}}

InitCaption ==
    /\ RenderOff
    /\ GuiOff
    /\ WriterOff
    /\ call \in CaptionCalls
    /\ ret = NoRet
    /\ fpc = "off"
    /\ covers = << >>
    /\ found_volumes = {}
    /\ pos = 0
    /\ requests = << >>

\* vol_text = format_volume_text(vols)
FormatVolumeText ==
    /\ call.fn = "format_volume_text"
    /\ ~ret.done
    /\ ret' = [done |-> TRUE, value |-> format_volume_text(call.vols)]
    /\ UNCHANGED <<elsewhere, call, fpc, covers, found_volumes, pos, requests>>

NextCaption == FormatVolumeText

CaptionSpec == InitCaption /\ [][NextCaption]_vars

\* ------------------------------------------------------------------------
\* MangaDexFetcher.get_volume_covers (manga_fetcher.py 58-123)
\* ------------------------------------------------------------------------
\* int(volume_str) on the volume strings of the model: the number, or
\* ValueError
IntOf(volume_str) ==
    CASE volume_str = "1" -> [raised |-> "none", value |-> 1]
      [] volume_str = "01" -> [raised |-> "none", value |-> 1]
      [] volume_str = "2" -> [raised |-> "none", value |-> 2]
      [] OTHER -> [raised |-> "ValueError", value |-> 0]

\* f"https://uploads.mangadex.org/covers/{manga_id}/{filename}", in pieces
CoverUrl(manga_id, filename) ==
    <<"https://uploads.mangadex.org/covers/", manga_id, "/", filename>>

\* the attributes of a cover of the response: volume is a string or null,
\* fileName a string
CoverEntries ==
    {[volume |-> v, fileName |-> f] :
        v \in {"null", "1", "01", "2", "1.5"}, f \in {"", "v1.jpg", "alt.jpg"}}

\* what requests.get meets: a request that fails (RequestException), an
\* answer that is not ok, an ok answer with its covers
Responses ==
    {[failed |-> TRUE, result |-> "none", data |-> << >>],
     [failed |-> FALSE, result |-> "error", data |-> << >>]}
    \cup {[failed |-> FALSE, result |-> "ok", data |-> d] :
              d \in UNION {[1..n -> CoverEntries] : n \in 0..MaxResponse}}

FetchCalls ==
    {[fn |-> "get_volume_covers", manga_id |-> "manga-id",
      volume_numbers |-> vs, response |-> r] :
        vs \in {{1}, {1, 2}, {2, 99}}, r \in Responses}

\* one pass of the loop body with a cover found again replacing the first
ProcessCover_overwrite(cs, found, manga_id, volume_numbers, attributes) ==
    LET volume_str == attributes.volume
        volume_num == IntOf(volume_str)
        filename == attributes.fileName
    IN  IF volume_str \in {"null", ""} \/ volume_num.raised # "none"
        THEN [covers |-> cs, found_volumes |-> found]
        ELSE IF volume_num.value \in volume_numbers /\ filename # ""
        THEN [covers |->
                 [v \in DOMAIN cs \cup {volume_num.value} |->
                     IF v = volume_num.value
                     THEN CoverUrl(manga_id, filename) ELSE cs[v]],
              found_volumes |-> found \cup {volume_num.value}]
        ELSE [covers |-> cs, found_volumes |-> found]

\* one pass of the loop body (manga_fetcher.py 86-107): covers and
\* found_volumes after it
ProcessCover(cs, found, manga_id, volume_numbers, attributes) ==
    LET volume_str == attributes.volume
        volume_num == IntOf(volume_str)
        filename == attributes.fileName
    IN  IF volume_str \in {"null", ""} \/ volume_num.raised # "none"
        THEN [covers |-> cs, found_volumes |-> found]
        ELSE IF /\ volume_num.value \in volume_numbers
                /\ volume_num.value \notin found
                /\ filename # ""
        THEN [covers |->
                 [v \in DOMAIN cs \cup {volume_num.value} |->
                     IF v = volume_num.value
                     THEN CoverUrl(manga_id, filename) ELSE cs[v]],
              found_volumes |-> found \cup {volume_num.value}]
        ELSE [covers |-> cs, found_volumes |-> found]

InitFetch ==
    /\ RenderOff
    /\ GuiOff
    /\ WriterOff
    /\ call \in FetchCalls
    /\ ret = NoRet
    /\ fpc = "request"
    /\ covers = << >>
    /\ found_volumes = {}
    /\ pos = 0
    /\ requests = << >>

\* requests.get, raise_for_status and json: a RequestException is caught and
\* covers returned; an answer that is not ok or has no data returns covers
Request ==
    /\ fpc = "request"
    /\ IF /\ ~call.response.failed
          /\ call.response.result = "ok"
          /\ call.response.data # << >>
       THEN /\ fpc' = "loop"
            /\ UNCHANGED ret
       ELSE /\ fpc' = "done"
            /\ ret' = [done |-> TRUE, value |-> covers]
    /\ found_volumes' = {}
    /\ pos' = 0
    /\ requests' = Append(requests, "https://api.mangadex.org/cover")
    /\ UNCHANGED <<elsewhere, call, covers>>

\* for cover_data in data["data"]: one cover
NextCover ==
    /\ fpc = "loop"
    /\ pos < Len(call.response.data)
    /\ LET after == ProcessCover(covers, found_volumes, call.manga_id,
                                 call.volume_numbers,
                                 call.response.data[pos + 1])
       IN  /\ covers' = after.covers
           /\ found_volumes' = after.found_volumes
    /\ pos' = pos + 1
    /\ UNCHANGED <<elsewhere, call, ret, fpc, requests>>

\* the loop is over: return covers
ReturnCovers ==
    /\ fpc = "loop"
    /\ pos = Len(call.response.data)
    /\ ret' = [done |-> TRUE, value |-> covers]
    /\ fpc' = "done"
    /\ UNCHANGED <<elsewhere, call, covers, found_volumes, pos, requests>>

NextFetch ==
    \/ Request
    \/ NextCover
    \/ ReturnCovers

FetchSpec == InitFetch /\ [][NextFetch]_vars

\* ------------------------------------------------------------------------
\* MangaDexFetcher.get_manga_id and fetch_covers (manga_fetcher.py 14-56,
\* 125-145)
\* ------------------------------------------------------------------------
\* the results of a search: each carries an id, or none ("None")
MangaResults == {[id |-> i] : i \in {"id-a", "id-b", "None"}}

\* what requests.get meets on a search: a request that fails, an answer that
\* is not ok, an ok answer with its list of results
SearchResponses ==
    {[failed |-> TRUE, result |-> "none", data |-> << >>],
     [failed |-> FALSE, result |-> "error", data |-> << >>]}
    \cup {[failed |-> FALSE, result |-> "ok", data |-> d] :
              d \in UNION {[1..n -> MangaResults] : n \in 0..MaxResponse}}

\* the answers to the covers request of a fetch_covers call: those of
\* Responses with one cover at most
CoverResponses == {r \in Responses : Len(r.data) <= 1}

\* the id of the last result instead of the first
get_manga_id_last(response) ==
    IF ~response.failed /\ response.result = "ok" /\ response.data # << >>
    THEN response.data[Len(response.data)].id
    ELSE "None"

\* what get_manga_id returns on a response: data["data"][0].get("id"), None
\* if the request failed, the answer is not ok or the list is empty
get_manga_id(response) ==
    IF ~response.failed /\ response.result = "ok" /\ response.data # << >>
    THEN response.data[1].id
    ELSE "None"

SearchCalls ==
    {[fn |-> "get_manga_id", title |-> "Title", search |-> r] :
        r \in SearchResponses}
    \cup {[fn |-> "fetch_covers", title |-> "Title", volume_numbers |-> vs,
           search |-> r, manga_id |-> "unset", response |-> c] :
              vs \in {{}, {1}, {1, 2}}, r \in SearchResponses,
              c \in CoverResponses}

InitSearch ==
    /\ RenderOff
    /\ GuiOff
    /\ WriterOff
    /\ call \in SearchCalls
    /\ ret = NoRet
    /\ fpc = IF call.fn = "fetch_covers" THEN "fetch_covers" ELSE "search"
    /\ covers = << >>
    /\ found_volumes = {}
    /\ pos = 0
    /\ requests = << >>

\* fetch_covers: if not volumes_set: return {}
FetchCovers ==
    /\ fpc = "fetch_covers"
    /\ IF call.volume_numbers = {}
       THEN /\ ret' = [done |-> TRUE, value |-> << >>]
            /\ fpc' = "done"
       ELSE /\ fpc' = "search"
            /\ UNCHANGED ret
    /\ UNCHANGED <<elsewhere, call, covers, found_volumes, pos, requests>>

\* get_manga_id: one requests.get, and what it returns; in fetch_covers,
\* if not manga_id: return {}, else get_volume_covers is called with the id
GetMangaId ==
    /\ fpc = "search"
    /\ requests' = Append(requests, "https://api.mangadex.org/manga")
    /\ LET id == get_manga_id(call.search)
       IN  IF call.fn = "get_manga_id"
           THEN /\ ret' = [done |-> TRUE, value |-> id]
                /\ fpc' = "done"
                /\ UNCHANGED call
           ELSE IF id = "None"
           THEN /\ ret' = [done |-> TRUE, value |-> << >>]
                /\ fpc' = "done"
                /\ call' = [call EXCEPT !.manga_id = id]
           ELSE /\ call' = [call EXCEPT !.manga_id = id]
                /\ fpc' = "request"
                /\ UNCHANGED ret
    /\ UNCHANGED <<elsewhere, covers, found_volumes, pos>>

NextSearch ==
    \/ FetchCovers
    \/ GetMangaId
    \/ Request
    \/ NextCover
    \/ ReturnCovers

SearchSpec == InitSearch /\ [][NextSearch]_vars

\* ------------------------------------------------------------------------
\* The live preview of PosterEditor (gui/main_window.py): the widgets of the
\* settings panel change, _trigger_update arms the timers, the preview timer
\* calls refresh_preview.  Time is counted in ticks of 100 ms; a timer is -1
\* when it is not running and 0 when it is due.
\* ------------------------------------------------------------------------
debounce_delay == 5
loading_delay == 1

\* the longest silence the model tells from a longer one
QuietCap == debounce_delay + 1

\* _trigger_update that leaves a running preview timer alone
trigger_update_running(ed) ==
    [ed EXCEPT !.preview_timer = IF ed.preview_timer >= 0
                                 THEN ed.preview_timer ELSE debounce_delay,
               !.loading_timer = loading_delay]

\* _trigger_update: both timers are stopped and started again
trigger_update(ed) ==
    [ed EXCEPT !.preview_timer = debounce_delay,
               !.loading_timer = loading_delay]

\* one call of refresh_preview: what it rendered and how long the widgets
\* had been quiet
RenderCall(ed) ==
    [config |-> ed.config, cover_data |-> ed.cover_data, quiet |-> quiet]

InitDebounce ==
    /\ RenderOff
    /\ WriterOff
    /\ call = NoCall
    /\ ret = NoRet
    /\ fpc = "off"
    /\ covers = << >>
    /\ found_volumes = {}
    /\ pos = 0
    /\ requests = << >>
    /\ editor = [NoEditor EXCEPT !.panel = "image"]
    /\ quiet = QuietCap
    /\ rendered = << >>
    /\ threads = << >>
    /\ signals = << >>

\* a widget of the settings panel or of the schedule changes: configChanged
\* or scheduleChanged calls _trigger_update
Change ==
    /\ editor.widgets < MaxChanges
    /\ editor' = trigger_update([editor EXCEPT !.widgets = @ + 1])
    /\ quiet' = 0
    /\ UNCHANGED <<render_vars, call, ret, fpc, covers, found_volumes, pos,
                   requests, rendered, threads, signals, writer>>

\* 100 ms pass; a timer that is due stays due until the event loop calls it
Tick ==
    /\ quiet' = IF quiet < QuietCap THEN quiet + 1 ELSE quiet
    /\ editor' =
          [editor EXCEPT
              !.preview_timer = IF @ > 0 THEN @ - 1 ELSE @,
              !.loading_timer = IF @ > 0 THEN @ - 1 ELSE @]
    /\ UNCHANGED <<render_vars, call, ret, fpc, covers, found_volumes, pos,
                   requests, rendered, threads, signals, writer>>

\* the loading timer is due: _show_loading
ShowLoading ==
    /\ editor.loading_timer = 0
    /\ editor' =
          [editor EXCEPT
              !.loading_timer = -1,
              !.panel = IF editor.is_loading THEN @ ELSE "loading"]
    /\ UNCHANGED <<render_vars, call, ret, fpc, covers, found_volumes, pos,
                   requests, quiet, rendered, threads, signals, writer>>

\* the preview timer is due: refresh_preview pulls the widgets into the
\* configuration and the schedule, renders them and shows the image or the
\* error
RefreshPreview ==
    /\ editor.preview_timer = 0
    /\ LET synced == [editor EXCEPT !.config = editor.widgets]
       IN  /\ rendered' = Append(rendered, RenderCall(synced))
           /\ \E shown \in {"image", "error"} :
                 editor' = [synced EXCEPT !.preview_timer = -1,
                                          !.panel = shown]
    /\ UNCHANGED <<render_vars, call, ret, fpc, covers, found_volumes, pos,
                   requests, quiet, threads, signals, writer>>

NextDebounce ==
    \/ Change
    \/ Tick
    \/ ShowLoading
    \/ RefreshPreview

\* the event loop runs and time passes
DebounceSpec ==
    /\ InitDebounce
    /\ [][NextDebounce]_vars
    /\ WF_vars(Tick)
    /\ WF_vars(RefreshPreview)

\* ------------------------------------------------------------------------
\* The cover fetches of PosterEditor (gui/main_window.py 150-221): each
\* _fetch_covers starts a thread, the thread emits finished or error, the GUI
\* thread handles the signals in the order they were emitted and renders.
\* The handlers of the GUI thread run one at a time; a render is one of them
\* and is taken step by step, so the threads run while it does.
\* ------------------------------------------------------------------------
\* {**a, **b}
MergeDicts(a, b) ==
    [v \in DOMAIN a \cup DOMAIN b |-> IF v \in DOMAIN b THEN b[v] ELSE a[v]]

\* the titles the user confirms
Titles == {"A", "B"}

\* what fetch_covers returns for a title and the volumes of the schedule: no
\* cover, or the cover of volume 1 in the catalog of that title
CatalogCovers(title) == {<< >>, [v \in {1} |-> <<title, "1.jpg">>]}

\* the GUI thread is between two handlers
GuiThreadFree == pc \in {"off", "done"}

InitFetching ==
    /\ config = PosterConfig(3, Q(3, 2), QZero,
                             [horizontal_padding |-> Q(1, 2),
                              column_spacing |-> Q(1, 2),
                              vertical_padding |-> QInt(1)], FALSE)
    /\ schedule = MakeSchedule(<<1>>, 1)
    /\ cover_data = << >>
    /\ cover_urls \in ManualUrls
    /\ original_cover_urls = << >>
    /\ pc = "off"
    /\ error = "none"
    /\ dims = NoDims
    /\ layers = << >>
    /\ idx = 0
    /\ j = 0
    /\ group = NoGroup
    /\ lineart = "unset"
    /\ loads = << >>
    /\ composited = << >>
    /\ frame_instance = NoFrame
    /\ prev_dims = NoDims
    /\ call = NoCall
    /\ ret = NoRet
    /\ fpc = "off"
    /\ covers = << >>
    /\ found_volumes = {}
    /\ pos = 0
    /\ requests = << >>
    /\ WriterOff
    /\ editor = [NoEditor EXCEPT !.panel = "image"]
    /\ quiet = 0
    /\ rendered = << >>
    /\ threads = << >>
    /\ signals = << >>

\* _fetch_covers: the schedule has volumes, so is_loading is set and a thread
\* is started.  _show_loading then finds is_loading set and shows nothing.
StartFetch ==
    /\ GuiThreadFree
    /\ Len(threads) < MaxFetches
    /\ \E title \in Titles :
          threads' = Append(threads, [title |-> title, at |-> "fetch",
                                      covers |-> << >>, merged |-> << >>])
    /\ editor' = [editor EXCEPT !.is_loading = TRUE]
    /\ UNCHANGED <<render_vars, call, ret, fpc, covers, found_volumes, pos,
                   requests, quiet, rendered, signals, writer>>

\* _fetch_thread: f.fetch_covers(title, vols) returns, or raises and the
\* thread emits error
ThreadFetch ==
    \E n \in DOMAIN threads :
        /\ threads[n].at = "fetch"
        /\ \/ /\ \E found \in CatalogCovers(threads[n].title) :
                    threads' = [threads EXCEPT ![n].covers = found,
                                               ![n].at = "merge"]
              /\ UNCHANGED signals
           \/ /\ threads' = [threads EXCEPT ![n].at = "raised"]
              /\ signals' = Append(signals, [signal |-> "error", thread |-> n,
                                             covers |-> << >>])
        /\ UNCHANGED <<render_vars, call, ret, fpc, covers, found_volumes,
                       pos, requests, editor, quiet, rendered, writer>>

\* _fetch_thread: merged = {**covers, **cover_urls}, read from the
\* module-level table as it is now; signals.finished.emit(merged)
ThreadMerge ==
    \E n \in DOMAIN threads :
        /\ threads[n].at = "merge"
        /\ LET merged == MergeDicts(threads[n].covers, cover_urls)
           IN  /\ threads' = [threads EXCEPT ![n].merged = merged,
                                             ![n].at = "emitted"]
               /\ signals' = Append(signals, [signal |-> "finished",
                                              thread |-> n,
                                              covers |-> merged])
        /\ UNCHANGED <<render_vars, call, ret, fpc, covers, found_volumes,
                       pos, requests, editor, quiet, rendered, writer>>

\* _on_fetch_done: cover_data and is_loading are set and refresh_preview
\* starts a render of the covers received
OnFetchDone ==
    /\ GuiThreadFree
    /\ signals # << >>
    /\ Head(signals).signal = "finished"
    /\ signals' = Tail(signals)
    /\ editor' = [editor EXCEPT !.cover_data = Head(signals).covers,
                                !.is_loading = FALSE]
    /\ rendered' = Append(rendered, RenderCall(editor'))
    /\ cover_data' = Head(signals).covers
    /\ pc' = "idle"
    /\ error' = "none"
    /\ dims' = NoDims
    /\ layers' = << >>
    /\ idx' = 0
    /\ j' = 0
    /\ group' = NoGroup
    /\ lineart' = "unset"
    /\ loads' = << >>
    /\ composited' = << >>
    /\ frame_instance' = NoFrame
    /\ prev_dims' = dims
    /\ UNCHANGED <<config, schedule, cover_urls, original_cover_urls, call,
                   ret, fpc, covers, found_volumes, pos, requests, quiet,
                   threads, writer>>

\* _on_fetch_error: is_loading is cleared and the error shown
OnFetchError ==
    /\ GuiThreadFree
    /\ signals # << >>
    /\ Head(signals).signal = "error"
    /\ signals' = Tail(signals)
    /\ editor' = [editor EXCEPT !.is_loading = FALSE, !.panel = "error"]
    /\ UNCHANGED <<render_vars, call, ret, fpc, covers, found_volumes, pos,
                   requests, quiet, rendered, threads, writer>>

NextFetching ==
    \/ StartFetch
    \/ ThreadFetch
    \/ ThreadMerge
    \/ OnFetchDone
    \/ OnFetchError
    \/ Next

FetchingSpec == InitFetching /\ [][NextFetching]_vars

\* ------------------------------------------------------------------------
\* hex_to_rgb (renderer.py 97-115), Frame._hex_to_rgb (frame.py 181-199) and
\* center_crop_zoom (image_utils.py 90-118), called as functions.  A string
\* is the sequence of its characters.
\* ------------------------------------------------------------------------
\* the value of a hexadecimal digit, -1 for any other character
Digit16(c) ==
    CASE c = "0" -> 0 [] c = "1" -> 1 [] c = "2" -> 2 [] c = "3" -> 3
      [] c = "4" -> 4 [] c = "5" -> 5 [] c = "6" -> 6 [] c = "7" -> 7
      [] c = "8" -> 8 [] c = "9" -> 9
      [] c \in {"a", "A"} -> 10 [] c \in {"b", "B"} -> 11
      [] c \in {"c", "C"} -> 12 [] c \in {"d", "D"} -> 13
      [] c \in {"e", "E"} -> 14 [] c \in {"f", "F"} -> 15
      [] OTHER -> -1

\* int(text, 16) of a text of letters and digits: ValueError unless every
\* character is a hexadecimal digit
RECURSIVE Int16(_)
Int16(text) ==
    IF text = << >> THEN [raised |-> "ValueError", value |-> 0]
    ELSE LET d == Digit16(text[Len(text)])
             front == SubSeq(text, 1, Len(text) - 1)
             rest == IF front = << >> THEN [raised |-> "none", value |-> 0]
                     ELSE Int16(front)
         IN  IF d < 0 \/ rest.raised # "none"
             THEN [raised |-> "ValueError", value |-> 0]
             ELSE [raised |-> "none", value |-> 16 * rest.value + d]

\* str.lstrip('#')
RECURSIVE LStripHash(_)
LStripHash(text) ==
    IF text # << >> /\ Head(text) = "#" THEN LStripHash(Tail(text)) ELSE text

\* str.lower() on the letters of the model
Lower(text) ==
    LET upper == <<"D", "E", "H", "I", "R", "T", "W">>
        lower == <<"d", "e", "h", "i", "r", "t", "w">>
    IN  [i \in DOMAIN text |->
            IF \E k \in DOMAIN upper : upper[k] = text[i]
            THEN lower[CHOOSE k \in DOMAIN upper : upper[k] = text[i]]
            ELSE text[i]]

\* color_map.get(name, (255, 255, 255))
ColorMap(name) ==
    CASE name = <<"w", "h", "i", "t", "e">> -> <<255, 255, 255>>
      [] name = <<"b", "l", "a", "c", "k">> -> <<0, 0, 0>>
      [] name = <<"g", "o", "l", "d">> -> <<255, 215, 0>>
      [] name = <<"y", "e", "l", "l", "o", "w">> -> <<255, 255, 0>>
      [] name = <<"r", "e", "d">> -> <<255, 0, 0>>
      [] name = <<"g", "r", "e", "e", "n">> -> <<0, 255, 0>>
      [] name = <<"b", "l", "u", "e">> -> <<0, 0, 255>>
      [] OTHER -> <<255, 255, 255>>

\* the tuple of the components, or the exception of the first that raises
RgbOf(parts) ==
    IF \E i \in 1..3 : parts[i].raised # "none"
    THEN [raised |-> "ValueError", value |-> << >>]
    ELSE [raised |-> "none", value |-> [i \in 1..3 |-> parts[i].value]]

\* hex_to_rgb; Frame._hex_to_rgb has the same body
hex_to_rgb(hex_color) ==
    LET h == LStripHash(hex_color)
    IN  IF Len(h) = 6
        THEN RgbOf([i \in 1..3 |-> Int16(SubSeq(h, 2 * i - 1, 2 * i))])
        ELSE IF Len(h) = 3
        THEN RgbOf([i \in 1..3 |-> Int16(<<h[i], h[i]>>)])
        ELSE [raised |-> "none", value |-> ColorMap(Lower(h))]

\* the colour strings of the model: the names of the table, hexadecimal
\* strings with and without '#', other strings
ColourStrings ==
    {<<"w", "h", "i", "t", "e">>,
     <<"b", "l", "a", "c", "k">>,
     <<"g", "o", "l", "d">>,
     <<"y", "e", "l", "l", "o", "w">>,
     <<"r", "e", "d">>,
     <<"g", "r", "e", "e", "n">>,
     <<"b", "l", "u", "e">>,
     <<"W", "h", "i", "t", "e">>,
     <<"R", "E", "D">>,
     <<"#", "f", "f", "0", "0", "0", "0">>,
     <<"f", "f", "0", "0", "0", "0">>,
     <<"#", "F", "F", "D", "7", "0", "0">>,
     <<"#", "f", "0", "0">>,
     <<"f", "0", "0">>,
     <<"#", "#", "0", "a", "f">>,
     <<>>,
     <<"#">>,
     <<"p", "u", "r", "p", "l", "e">>,
     <<"o", "r", "a", "n", "g", "e">>,
     <<"s", "k", "y">>,
     <<"#", "1", "2", "3", "4", "5">>,
     <<"1", "2", "3", "4", "5", "6", "7">>}

\* the zoom factors of the model, within the range of the zoom widget
\* (settings_panel.py 106: 0.1 to 3.0)
ZoomFactors == {Q(1, 10), Q(1, 2), QOne, Q(11, 10), Q(3, 2), QInt(3)}

\* center_crop_zoom: the crop box of an image of the given size
center_crop_zoom(width, height, zoom_factor) ==
    LET new_width == QTrunc(QDiv(QInt(width), zoom_factor))
        new_height == QTrunc(QDiv(QInt(height), zoom_factor))
        left == (width - new_width) \div 2
        top == (height - new_height) \div 2
    IN  [left |-> left, top |-> top, right |-> left + new_width,
         bottom |-> top + new_height]

UtilityCalls ==
    {[fn |-> f, hex_color |-> c] :
        f \in {"hex_to_rgb", "Frame._hex_to_rgb"}, c \in ColourStrings}
    \cup {[fn |-> "center_crop_zoom", width |-> w, height |-> h,
           zoom_factor |-> z] :
              w \in 1..MaxSide, h \in 1..MaxSide, z \in ZoomFactors}

InitUtility ==
    /\ RenderOff
    /\ GuiOff
    /\ WriterOff
    /\ call \in UtilityCalls
    /\ ret = NoRet
    /\ fpc = "off"
    /\ covers = << >>
    /\ found_volumes = {}
    /\ pos = 0
    /\ requests = << >>

\* rgb = hex_to_rgb(color), rgb = self._hex_to_rgb(color)
HexToRgb ==
    /\ call.fn \in {"hex_to_rgb", "Frame._hex_to_rgb"}
    /\ ~ret.done
    /\ ret' = [done |-> TRUE, value |-> hex_to_rgb(call.hex_color)]
    /\ UNCHANGED <<elsewhere, call, fpc, covers, found_volumes, pos, requests>>

\* img_cropped = center_crop_zoom(img_pil, config.zoom_factor)
CenterCropZoom ==
    /\ call.fn = "center_crop_zoom"
    /\ ~ret.done
    /\ ret' = [done |-> TRUE,
               value |-> center_crop_zoom(call.width, call.height,
                                          call.zoom_factor)]
    /\ UNCHANGED <<elsewhere, call, fpc, covers, found_volumes, pos, requests>>

NextUtility ==
    \/ HexToRgb
    \/ CenterCropZoom

UtilitySpec == InitUtility /\ [][NextUtility]_vars

\* ------------------------------------------------------------------------
\* OpenRasterWriter (ora_writer.py).  The elements of stack.xml are numbered
\* in the order they were made, the root stack being 0; an element records
\* the stack it was appended to.  current_stack and the entries of
\* group_stack are such numbers.  The images are PIL images, as the
\* signatures declare.
\* ------------------------------------------------------------------------
\* f"data/layer_{self.layer_counter}.png", in pieces
LayerFile(n) == <<"data/layer_", n, ".png">>

\* add_layer: the file name is taken, the counter advanced, the image stored
\* and the layer element appended to the current stack
add_layer(w, composite_op) ==
    [w EXCEPT
        !.layer_counter = @ + 1,
        !.data_files = Append(@, LayerFile(w.layer_counter)),
        !.elements = Append(@, [tag |-> "layer", parent |-> w.current_stack,
                                src |-> LayerFile(w.layer_counter),
                                composite_op |-> composite_op,
                                isolation |-> FALSE])]

\* start_group: the stack element is appended to the current stack, the
\* current stack pushed and the new element made current
start_group(w, isolation) ==
    [w EXCEPT
        !.elements = Append(@, [tag |-> "stack", parent |-> w.current_stack,
                                src |-> << >>,
                                composite_op |-> "svg:src-over",
                                isolation |-> isolation]),
        !.group_stack = Append(@, w.current_stack),
        !.current_stack = Len(w.elements) + 1]

\* end_group that returns to the root stack
end_group_root(w) ==
    IF w.group_stack # << >>
    THEN [raised |-> "none",
          writer |-> [w EXCEPT !.current_stack = 0, !.group_stack = << >>]]
    ELSE [raised |-> "ValueError", writer |-> w]

\* end_group: the current stack is popped from group_stack, ValueError if
\* there is none
end_group(w) ==
    IF w.group_stack # << >>
    THEN [raised |-> "none",
          writer |-> [w EXCEPT
                         !.current_stack = w.group_stack[Len(w.group_stack)],
                         !.group_stack = SubSeq(@, 1, Len(@) - 1)]]
    ELSE [raised |-> "ValueError", writer |-> w]

\* add_mask_group: an isolated group of the content layer and, above it, the
\* mask layer with svg:dst-in
add_mask_group(w) ==
    end_group(add_layer(add_layer(start_group(w, TRUE), "svg:src-over"),
                        "svg:dst-in")).writer

InitWriter ==
    /\ RenderOff
    /\ GuiOff
    /\ writer = NoWriter
    /\ call = NoCall
    /\ ret = NoRet
    /\ fpc = "off"
    /\ covers = << >>
    /\ found_volumes = {}
    /\ pos = 0
    /\ requests = << >>

\* writer.add_layer(image, name)
AddLayer ==
    /\ Len(writer.elements) < MaxElements
    /\ writer' = add_layer(writer, "svg:src-over")
    /\ call' = [fn |-> "add_layer"]
    /\ ret' = [done |-> TRUE, value |-> LayerFile(writer.layer_counter)]
    /\ UNCHANGED <<render_vars, gui_vars, fpc, covers, found_volumes, pos,
                   requests>>

\* writer.start_group(name)
StartGroup ==
    /\ Len(writer.elements) < MaxElements
    /\ \E isolation \in BOOLEAN : writer' = start_group(writer, isolation)
    /\ call' = [fn |-> "start_group"]
    /\ ret' = [done |-> TRUE, value |-> "None"]
    /\ UNCHANGED <<render_vars, gui_vars, fpc, covers, found_volumes, pos,
                   requests>>

\* writer.end_group()
EndGroup ==
    /\ writer' = end_group(writer).writer
    /\ call' = [fn |-> "end_group"]
    /\ ret' = [done |-> TRUE,
               value |-> IF end_group(writer).raised = "none" THEN "None"
                         ELSE end_group(writer).raised]
    /\ UNCHANGED <<render_vars, gui_vars, fpc, covers, found_volumes, pos,
                   requests>>

\* writer.add_mask_group(name, mask_image, content_image)
AddMaskGroup ==
    /\ Len(writer.elements) + 3 <= MaxElements
    /\ writer' = add_mask_group(writer)
    /\ call' = [fn |-> "add_mask_group"]
    /\ ret' = [done |-> TRUE, value |-> "None"]
    /\ UNCHANGED <<render_vars, gui_vars, fpc, covers, found_volumes, pos,
                   requests>>

NextWriter ==
    \/ AddLayer
    \/ StartGroup
    \/ EndGroup
    \/ AddMaskGroup

WriterSpec == InitWriter /\ [][NextWriter]_vars

\* ------------------------------------------------------------------------
\* A frame used as a library: the frame of a preset is asked for its
\* vertices, as Frame.render_to_pil asks (frame.py 129)
\* ------------------------------------------------------------------------
FramePresets ==
    {[type |-> t[1], width |-> Q(3, 2), height |-> Q(5, 2), spacing |-> QZero,
      skew_angle |-> t[2], rotation_angle |-> t[3]] :
        t \in {<<"parallelogram", -15, 0>>, <<"parallelogram", 0, 0>>,
               <<"parallelogram", 15, 0>>, <<"parallelogram", 45, 0>>,
               <<"star", 15, 0>>, <<"rhombus", -15, 0>>, <<"rhombus", -15, 60>>,
               <<"rectangle", -15, 0>>, <<"hexagon", -15, 0>>}}

FrameCalls ==
    {[fn |-> "calculate_vertices", preset |-> p, x_center |-> c[1],
      y_center |-> c[2], scaled_width |-> w, scaled_height |-> h] :
        p \in FramePresets, c \in {<<QZero, QZero>>, <<Q(5, 2), QInt(3)>>},
        w \in {Q(1, 2), QOne, Q(3, 2), QInt(4)},
        h \in {QOne, Q(5, 2), QInt(4)}}

InitFrame ==
    /\ RenderOff
    /\ GuiOff
    /\ WriterOff
    /\ call \in FrameCalls
    /\ ret = NoRet
    /\ fpc = "off"
    /\ covers = << >>
    /\ found_volumes = {}
    /\ pos = 0
    /\ requests = << >>

\* vertices = self.calculate_vertices(x_center, y_center, scaled_width,
\* scaled_height) of the frame made from the preset
CalculateVertices ==
    /\ call.fn = "calculate_vertices"
    /\ ~ret.done
    /\ ret' = [done |-> TRUE,
               value |-> calculate_vertices(
                            create_frame_from_preset(call.preset),
                            call.x_center, call.y_center,
                            call.scaled_width, call.scaled_height)]
    /\ UNCHANGED <<elsewhere, call, fpc, covers, found_volumes, pos, requests>>

NextFrame == CalculateVertices

FrameSpec == InitFrame /\ [][NextFrame]_vars

\* ------------------------------------------------------------------------
\* A stagger strategy used as a library: the strategy of a preset is asked
\* for the offsets of the indices 0, 1, ... of a group, as the render loop
\* asks for those of the frames of an entry (renderer.py 495-501)
\* ------------------------------------------------------------------------
StaggerPresets ==
    {[type |-> t, offset |-> o] :
        t \in {"none", "alternating", "staircase", "zigzag"},
        o \in {Q(1, 10), Q(3, 10), QOne}}

\* the calls: the offsets of a whole group of total_items >= 1 frames, or
\* those of the first indices for a total_items that is not positive
StaggerCalls ==
    {[fn |-> "calculate_offset", preset |-> p, total_items |-> n,
      count |-> IF n >= 1 THEN n ELSE MaxTotalItems] :
        p \in StaggerPresets, n \in (-1)..MaxTotalItems}

InitStagger ==
    /\ RenderOff
    /\ GuiOff
    /\ WriterOff
    /\ call \in StaggerCalls
    /\ ret = NoRet
    /\ fpc = "off"
    /\ covers = << >>
    /\ found_volumes = {}
    /\ pos = 0
    /\ requests = << >>

\* stagger_strategy.calculate_offset(index, total_items) for the next index
CalculateOffset ==
    /\ call.fn = "calculate_offset"
    /\ ~ret.done
    /\ LET stagger_strategy == create_stagger_from_preset(call.preset)
           index == Len(ret.value)
       IN  ret' = [done |-> index + 1 = call.count,
                   value |-> Append(ret.value,
                                    calculate_offset(stagger_strategy, index,
                                                     call.total_items))]
    /\ UNCHANGED <<elsewhere, call, fpc, covers, found_volumes, pos, requests>>

NextStagger == CalculateOffset

StaggerSpec == InitStagger /\ [][NextStagger]_vars

LayoutSpec == InitLayout /\ [][Next]_vars

\* the call returned a buffer
Returned == pc = "done" /\ error = "none"


\* ------------------------------------------------------------------------
\* Properties
\* ------------------------------------------------------------------------
\* calculate_layout_dimensions has returned
LayoutDone ==
    pc \notin {"idle", "clear", "update", "layout"} /\ dims.raised = "none"

\* R = 2*frameWidth + frameSpacing
RefWidth(fw, fs) == QAdd(QMul(QInt(2), fw), fs)

\* U(n) = n*frameWidth + (n-1)*frameSpacing
Unscaled(n, fw, fs) == QAdd(QMul(QInt(n), fw), QMul(QInt(n - 1), fs))

\* scale(n) = min(1, R/U(n))
Scale(n, fw, fs) == QMin(QOne, QDiv(RefWidth(fw, fs), Unscaled(n, fw, fs)))

\* C1: for frameWidth > 0, frameSpacing >= 0 and n >= 1 items,
\* calculate_scale_factor is min(1, R/U(n)); scale(1) = scale(2) = 1, scale is
\* strictly decreasing from n = 2 on, scale(3) = 210/320 for width 100 and
\* spacing 10; and the scale the render loop uses for an entry is that value.
C1_ScaleFactor ==
    LET fw == config.width
        fs == config.spacing
    IN  /\ pc = "idle" =>
              /\ \A n \in 1..(MaxVols + 2) :
                    calculate_scale_factor(n, fw, fs) = Scale(n, fw, fs)
              /\ calculate_scale_factor(1, fw, fs) = QOne
              /\ calculate_scale_factor(2, fw, fs) = QOne
              /\ \A n \in 2..(MaxVols + 1) :
                    QLt(calculate_scale_factor(n + 1, fw, fs),
                        calculate_scale_factor(n, fw, fs))
              /\ calculate_scale_factor(3, QInt(100), QInt(10)) = Q(210, 320)
        /\ pc = "item" =>
              group.scale_factor = Scale(Len(schedule[idx + 1]), fw, fs)

\* an entry of three items is being rendered, scaled down
C1_Witness ==
    /\ pc = "item"
    /\ Len(schedule[idx + 1]) = 3
    /\ QLt(group.scale_factor, QOne)

\* used width of an entry of n items: natural up to 2 items, R from 3 on
UsedWidth(n, fw, fs) ==
    IF n <= 2 THEN Unscaled(n, fw, fs) ELSE RefWidth(fw, fs)

\* C2: calculate_max_item_width is the maximum of the used widths of the
\* entries with at least one item, never exceeds the reference width, and is
\* 210 for entries of sizes 1, 2, 3 with width 100 and spacing 10.
C2_MaxItemWidth ==
    LET fw == config.width
        fs == config.spacing
        widths == {UsedWidth(Len(schedule[i]), fw, fs) :
                      i \in {k \in DOMAIN schedule : Len(schedule[k]) > 0}}
    IN  /\ pc = "idle" =>
              calculate_max_item_width(<<<<1>>, <<1, 2>>, <<1, 2, 3>>>>,
                                       QInt(100), QInt(10)) = QInt(210)
        /\ pc = "lineart" \/ (pc = "restore_clear" /\ dims.raised # "none") =>
              /\ QLe(dims.max_item_width, RefWidth(fw, fs))
              /\ widths # {} =>
                    /\ dims.max_item_width \in widths
                    /\ \A w \in widths : QLe(w, dims.max_item_width)

\* the layout of a schedule with a 3-item entry and a 1-item entry was planned
C2_Witness ==
    /\ LayoutDone
    /\ \E i \in DOMAIN schedule : Len(schedule[i]) = 3
    /\ \E i \in DOMAIN schedule : Len(schedule[i]) = 1
    /\ dims.max_item_width = RefWidth(config.width, config.spacing)


\* scaled spacing of a group of n items: (R - n*frameWidth*scale)/(n-1), 0 if n = 1
SpacingOf(n, fw, fs) ==
    IF n >= 2
    THEN QDiv(QSub(RefWidth(fw, fs), QMul(QInt(n), QMul(fw, Scale(n, fw, fs)))),
              QInt(n - 1))
    ELSE QZero

\* footprint of a group: n*scaledWidth + (n-1)*scaledSpacing
Footprint(n, scaled_width, scaled_spacing) ==
    QAdd(QMul(QInt(n), scaled_width), QMul(QInt(n - 1), scaled_spacing))

\* centre of item k of a group of n items centred on centre_x
CentreOf(centre_x, k, n, fw, fs) ==
    LET sw == QMul(fw, Scale(n, fw, fs))
        ss == SpacingOf(n, fw, fs)
        left == QSub(centre_x, QDiv(Footprint(n, sw, ss), QInt(2)))
    IN  QAdd(QAdd(left, QMul(QInt(k), QAdd(sw, ss))), QDiv(sw, QInt(2)))

\* C3: for an entry of n >= 2 items the scaled spacing is
\* (R - n*frameWidth*scale)/(n-1) >= 0, the footprint of the group is exactly
\* R, item k is centred at groupLeftEdge + k*(scaledWidth+scaledSpacing) +
\* scaledWidth/2 with the group centred on the cell centre; for n = 1 the
\* spacing is 0 and the frame is centred on cell_x at full size.
C3_GroupGeometry ==
    LET fw == config.width
        fs == config.spacing
    IN  /\ pc = "item" =>
              LET n == group.num_vols
                  sw == group.scaled_frame_width
                  ss == group.scaled_frame_spacing
              IN  /\ n = Len(schedule[idx + 1])
                  /\ ss = SpacingOf(n, fw, fs)
                  /\ QLe(QZero, ss)
                  /\ n >= 2 => Footprint(n, sw, ss) = RefWidth(fw, fs)
                  /\ n = 1 => /\ ss = QZero
                              /\ sw = fw
                              /\ ItemXCenter(group, 0) = group.cell_x
                  /\ \A k \in 0..(n - 1) :
                        /\ ItemXCenter(group, k)
                              = CentreOf(group.cell_x, k, n, fw, fs)
                        /\ QAdd(ItemXCenter(group, k),
                                ItemXCenter(group, n - 1 - k))
                              = QMul(QInt(2), group.cell_x)
        /\ Returned =>
              \A p \in DOMAIN layers :
                  layers[p].kind = "shadow" =>
                      layers[p].x =
                          CentreOf(CellX(layers[p].col, config, dims),
                                   layers[p].item,
                                   Len(schedule[layers[p].entry + 1]), fw, fs)

\* the last of three items, with a positive scaled spacing, is being rendered
C3_Witness ==
    /\ pc = "item"
    /\ group.num_vols = 3
    /\ j = 2
    /\ QLt(QZero, group.scaled_frame_spacing)

\* ceil(e / c)
Ceil(e, c) == CHOOSE r \in 0..e : r * c >= e /\ (r - 1) * c < e

\* C4: rowCount = ceil(E / C); the entry at schedule index i is placed at
\* row i div C and column i mod C, in a row < rowCount and a column < C; the
\* entries fill the grid in reading order and no two share a cell; 2 entries
\* with C = 2 give one row, the entries in columns 0 and 1.
C4_GridPlacement ==
    LET e == Len(schedule)
        c == config.cols
        dates == {p \in DOMAIN layers : layers[p].kind = "date"}
    IN  /\ (pc \notin {"idle", "clear", "update", "layout"} /\ e >= 1) =>
              dims.content_rows = Ceil(e, c)
        /\ LayoutDone =>
              /\ \A p \in dates :
                    /\ layers[p].row = layers[p].entry \div c
                    /\ layers[p].col = layers[p].entry % c
                    /\ layers[p].row < dims.content_rows
                    /\ layers[p].col \in 0..(c - 1)
              /\ \A p, q \in dates :
                    p < q =>
                       /\ layers[p].entry < layers[q].entry
                       /\ \/ layers[p].row < layers[q].row
                          \/ /\ layers[p].row = layers[q].row
                             /\ layers[p].col < layers[q].col
              /\ (e = 2 /\ c = 2 /\ Cardinality(dates) = 2) =>
                    /\ dims.content_rows = 1
                    /\ {<<layers[p].row, layers[p].col>> : p \in dates}
                          = {<<0, 0>>, <<0, 1>>}

\* two entries were placed in the two columns of a one-row grid
C4_Witness ==
    /\ Returned
    /\ Len(schedule) = 2
    /\ config.cols = 2
    /\ \E p \in DOMAIN layers :
          layers[p].kind = "date" /\ layers[p].row = 0 /\ layers[p].col = 1

\* C5: cellWidth = maxItemWidth + 2*horizontalPadding, canvasWidth =
\* C*cellWidth + (C-1)*columnSpacing, canvasHeight = titleRowHeight +
\* 5*rowCount, and titleRowHeight + rowCount*cellHeight +
\* (rowCount-1)*verticalPadding + bottomMargin = canvasHeight; the right edge
\* of the last column is canvasWidth and the bottom edge of the last row is
\* bottomMargin above the canvas bottom.
C5_LayoutDimensions ==
    LET c == config.cols
        rows == dims.content_rows
        half_w == QDiv(dims.cell_width, QInt(2))
        half_h == QDiv(dims.cell_height, QInt(2))
    IN  /\ (pc = "lineart" /\ Len(schedule) >= 1) =>
              /\ dims.raised = "none"
              /\ dims.cell_width
                    = QAdd(dims.max_item_width,
                           QMul(QInt(2), config.horizontal_padding))
              /\ dims.fig_width
                    = QAdd(QMul(QInt(c), dims.cell_width),
                           QMul(QInt(c - 1), config.column_spacing))
              /\ dims.fig_height
                    = QAdd(config.title_row_height, QInt(5 * rows))
              /\ QAdd(QAdd(config.title_row_height,
                           QMul(QInt(rows), dims.cell_height)),
                      QAdd(QMul(QInt(rows - 1), config.vertical_padding),
                           config.bottom_margin))
                    = dims.fig_height
              /\ QAdd(CellX(c - 1, config, dims), half_w) = dims.fig_width
              /\ QSub(CellY(rows - 1, config, dims), half_h)
                    = config.bottom_margin
        /\ pc = "item" =>
              /\ group.col = c - 1 =>
                    QAdd(group.cell_x, half_w) = dims.fig_width
              /\ group.row = rows - 1 =>
                    QSub(group.cell_y, half_h) = config.bottom_margin

\* an entry in the last column of the second row is being rendered
C5_Witness ==
    /\ pc = "item"
    /\ group.row = dims.content_rows - 1
    /\ group.row >= 1
    /\ group.col = config.cols - 1


\* C6: layout planning on an empty schedule is guarded: rowCount = 0, a
\* minimal canvas of the title row only, and no division by zero.
C6_EmptyScheduleGuarded ==
    (Len(schedule) = 0 /\ pc = "done") =>
        /\ error = "none"
        /\ dims.content_rows = 0
        /\ dims.fig_height = config.title_row_height

\* the layers of entry e (0-based), as their kinds
KindsOfEntry(e) ==
    LET ps == SelectSeq([p \in DOMAIN layers |-> p],
                        LAMBDA p : layers[p].entry = e)
    IN  [n \in DOMAIN ps |-> layers[ps[n]].kind]

\* the kinds an entry of items vols appends, item k having loaded or not
RECURSIVE ItemKinds(_, _, _)
ItemKinds(e, vols, k) ==
    IF k >= Len(vols) THEN << >>
    ELSE <<"shadow", "border">>
         \o (IF <<e, k>> \in DOMAIN loads /\ loads[<<e, k>>] = "ok"
             THEN <<"cover">> ELSE << >>)
         \o ItemKinds(e, vols, k + 1)

\* C7: a schedule entry with zero items still occupies its cell and renders
\* no frames: the render completes, with that entry's text layers and no
\* shadow, border or cover layer for it, every other entry rendered as usual.
C7_EmptyEntryRenders ==
    (pc = "done" /\ \E i \in DOMAIN schedule : Len(schedule[i]) = 0) =>
        /\ error = "none"
        /\ \A i \in DOMAIN schedule :
              KindsOfEntry(i - 1)
                 = <<"date", "caption">> \o ItemKinds(i - 1, schedule[i], 0)


\* the layer list is complete: it is handed to composite_flat, or was
ListComplete ==
    error = "none" /\ pc \in {"flatten", "restore_clear", "restore_update", "done"}

\* what a layer is and whose it is
KeyOf(l) == <<l.kind, l.entry, l.item>>

\* the stack of one entry, bottom to top
RECURSIVE ItemStack(_, _, _)
ItemStack(e, vols, k) ==
    IF k >= Len(vols) THEN << >>
    ELSE <<<<"shadow", e, k>>, <<"border", e, k>>>>
         \o (IF loads[<<e, k>>] = "ok" THEN <<<<"cover", e, k>>>> ELSE << >>)
         \o ItemStack(e, vols, k + 1)

\* the stack of the entries from e on, bottom to top
RECURSIVE EntryStack(_)
EntryStack(e) ==
    IF e >= Len(schedule) THEN << >>
    ELSE <<<<"date", e, -1>>, <<"caption", e, -1>>>>
         \o ItemStack(e, schedule[e + 1], 0)
         \o EntryStack(e + 1)

\* C8: the layer list handed to the flatten step is, bottom to top: the
\* background; the line-art if produced; the title; then per entry in
\* schedule order its date and caption layers and, per item in item order,
\* shadow, border and the masked cover if the image loaded.  So every layer
\* of an earlier item lies below every layer of a later item, and
\* composite_flat applies the layers in this order.
C8_LayerOrder ==
    ListComplete =>
        /\ [p \in DOMAIN layers |-> KeyOf(layers[p])]
              = <<<<"background", -1, -1>>>>
                \o (IF lineart = "ok" THEN <<<<"lineart", -1, -1>>>> ELSE << >>)
                \o <<<<"title", -1, -1>>>>
                \o EntryStack(0)
        /\ \A p, q \in DOMAIN layers :
              (/\ layers[p].item >= 0
               /\ layers[q].item >= 0
               /\ \/ layers[p].entry < layers[q].entry
                  \/ /\ layers[p].entry = layers[q].entry
                     /\ layers[p].item < layers[q].item)
              => p < q
        /\ \A p \in DOMAIN layers :
              layers[p].kind = "cover" => layers[p].masked
        /\ pc # "flatten" => composited = layers

\* a flattened poster of two entries with line-art, a loaded cover and a
\* cover that did not load
C8_Witness ==
    /\ Returned
    /\ Len(schedule) = 2
    /\ lineart = "ok"
    /\ \E a, b \in DOMAIN loads : loads[a] = "ok" /\ loads[b] # "ok"
    /\ composited = layers

\* the layers every render of this schedule and configuration has: all but
\* the line-art and the covers
RECURSIVE FrameLayers(_, _, _)
FrameLayers(e, g, k) ==
    IF k >= g.num_vols THEN << >>
    ELSE <<Layer("shadow", e, k, g.row, g.col, ItemXCenter(g, k),
                 g.scaled_frame_width, schedule[e + 1][k + 1], FALSE),
           Layer("border", e, k, g.row, g.col, ItemXCenter(g, k),
                 g.scaled_frame_width, schedule[e + 1][k + 1], FALSE)>>
         \o FrameLayers(e, g, k + 1)

RECURSIVE EntryLayers(_)
EntryLayers(e) ==
    IF e >= Len(schedule) THEN << >>
    ELSE LET g == EntryGroup(config, dims, e, schedule[e + 1])
         IN  <<TextLayer("date", e, g), TextLayer("caption", e, g)>>
             \o FrameLayers(e, g, 0)
             \o EntryLayers(e + 1)

\* the schedule has an entry, and no entry without items
Renderable ==
    /\ Len(schedule) >= 1
    /\ \A i \in DOMAIN schedule : Len(schedule[i]) >= 1

\* C9: unavailable resources never abort a render: an item for which the
\* image loader yields nothing contributes exactly its shadow and border
\* layers, a disabled, missing or unreadable line-art only omits the
\* line-art layer, the render succeeds, and every other layer is as it
\* would otherwise be.
C9_UnavailableResources ==
    pc = "done" =>
        /\ Renderable => error = "none"
        /\ error = "none" =>
              /\ \A a \in DOMAIN loads :
                    loads[a] # "ok" =>
                       [n \in DOMAIN SelectSeq(layers,
                             LAMBDA l : l.entry = a[1] /\ l.item = a[2]) |->
                           SelectSeq(layers,
                             LAMBDA l : l.entry = a[1] /\ l.item = a[2])[n].kind]
                          = <<"shadow", "border">>
              /\ lineart # "ok" =>
                    \A p \in DOMAIN layers : layers[p].kind # "lineart"
              /\ SelectSeq(layers, LAMBDA l : l.kind \notin {"lineart", "cover"})
                    = <<PlainLayer("background"), PlainLayer("title")>>
                      \o EntryLayers(0)

\* a render returned although the line-art was not available, one image
\* failed to load and one item had no URL
C9_Witness ==
    /\ Returned
    /\ lineart \in {"missing", "unreadable"}
    /\ \E a, b \in DOMAIN loads : loads[a] = "failed" /\ loads[b] = "no_url"

\* the cover layer the last item appended, if it appended one
LastIsCover == layers # << >> /\ layers[Len(layers)].kind = "cover"

\* C10: the cover layer appended for an item whose cover loads is confined to
\* the mask of the frame polygon: a pixel outside the mask is fully
\* transparent, a pixel inside the mask keeps the colour and the alpha of the
\* cover layer.
C10_MaskClip ==
    LastIsCover =>
        LET l == layers[Len(layers)]
        IN  \A p \in 0..(CanvasWidth(config, dims) - 1) :
               LET m == ConvertL(MaskPixel(l, config, p))
               IN  /\ m \in {0, 255}
                   /\ m = 0 => LayerPixel(l, config, p)[4] = 0
                   /\ m = 255 =>
                         LayerPixel(l, config, p) = CoverPixel(l, config, p)

\* a cover was appended whose image reaches beyond the mask on one side and
\* fills a pixel inside it
C10_Witness ==
    /\ LastIsCover
    /\ LET l == layers[Len(layers)]
       IN  /\ \E p \in 0..(CanvasWidth(config, dims) - 1) :
                 /\ ConvertL(MaskPixel(l, config, p)) = 0
                 /\ CoverPixel(l, config, p)[4] > 0
           /\ \E p \in 0..(CanvasWidth(config, dims) - 1) :
                 /\ ConvertL(MaskPixel(l, config, p)) = 255
                 /\ LayerPixel(l, config, p)[4] > 0

\* the configuration carries a configuration error
ConfigError(cfg) ==
    \/ cfg.shape_type \notin ShapeTypes
    \/ ~QLt(QZero, cfg.width)
    \/ ~QLt(QZero, cfg.height)
    \/ cfg.cols <= 0

\* C11: a render request whose configuration carries a configuration error
\* (an unrecognised shape kind, a frame width or height that is not positive,
\* zero columns) is rejected before any layer is produced: the call ends
\* with an error, never with a poster, and an unrecognised shape kind is not
\* replaced by a default shape.
C11_ConfigErrorRejected ==
    ConfigError(config) =>
        /\ layers = << >>
        /\ pc = "done" => error # "none"
        /\ frame_instance.type \in {"unset", config.shape_type}

\* sum of a sequence of rationals
RECURSIVE QSum(_)
QSum(qs) == IF qs = << >> THEN QZero ELSE QAdd(Head(qs), QSum(Tail(qs)))

\* -step for even i and +step for odd i, minus the group mean: 0 for even n,
\* -step/n for odd n
AlternatingExpected(i, n, step) ==
    QSub(IF i % 2 = 0 THEN QSub(QZero, step) ELSE step,
         IF n % 2 = 0 THEN QZero ELSE Q(-step[1], step[2] * n))

\* C12: for every group size n >= 1, even or odd, and every step, the
\* Alternating offsets of the indices 0..n-1 are -step for even i and +step
\* for odd i minus the group mean (0 for even n, -step/n for odd n), and
\* they sum to zero.
C12_AlternatingSum ==
    (/\ call.fn = "calculate_offset"
     /\ call.preset.type = "alternating"
     /\ call.total_items >= 1) =>
        /\ \A k \in DOMAIN ret.value :
              ret.value[k] = AlternatingExpected(k - 1, call.total_items,
                                                 call.preset.offset)
        /\ ret.done =>
              /\ Len(ret.value) = call.total_items
              /\ QSum(ret.value) = QZero

\* the offsets of an odd Alternating group of three were all computed
C12_Witness ==
    /\ call.fn = "calculate_offset"
    /\ call.preset.type = "alternating"
    /\ call.total_items = 3
    /\ ret.done
    /\ ret.value[1] = ret.value[3]
    /\ QLt(ret.value[1], QZero)
    /\ QLt(QZero, ret.value[2])

\* C13: for every group size n >= 1 and step, the Staircase offsets are
\* (i - (n-1)/2)*step: consecutive indices differ by exactly step,
\* offset(i) = -offset(n-1-i), the offsets sum to zero, n = 3 gives
\* [-step, 0, +step] and n = 4 gives [-1.5, -0.5, 0.5, 1.5]*step.
C13_Staircase ==
    (/\ call.fn = "calculate_offset"
     /\ call.preset.type = "staircase"
     /\ call.total_items >= 1) =>
        LET n == call.total_items
            step == call.preset.offset
        IN  /\ \A k \in DOMAIN ret.value :
                  ret.value[k] = QMul(QSub(QInt(k - 1), Q(n - 1, 2)), step)
            /\ \A k \in DOMAIN ret.value :
                  k >= 2 => QSub(ret.value[k], ret.value[k - 1]) = step
            /\ ret.done =>
                  /\ Len(ret.value) = n
                  /\ \A k \in 1..n :
                        ret.value[k] = QSub(QZero, ret.value[n + 1 - k])
                  /\ QSum(ret.value) = QZero
                  /\ n = 3 => ret.value = <<QSub(QZero, step), QZero, step>>
                  /\ n = 4 =>
                        ret.value = <<QMul(Q(-3, 2), step), QMul(Q(-1, 2), step),
                                      QMul(Q(1, 2), step), QMul(Q(3, 2), step)>>

\* the offsets of a Staircase group of four were all computed
C13_Witness ==
    /\ call.fn = "calculate_offset"
    /\ call.preset.type = "staircase"
    /\ call.total_items = 4
    /\ ret.done
    /\ ret.value[4] = QMul(Q(3, 2), call.preset.offset)

\* C14: for a group size <= 0 every stagger policy returns the offset 0 for
\* every index, and the None policy and every unrecognised stagger type
\* return 0 for every index and group size.
C14_NoOffset ==
    call.fn = "calculate_offset" =>
        /\ call.total_items <= 0 =>
              \A k \in DOMAIN ret.value : ret.value[k] = QZero
        /\ call.preset.type \notin {"alternating", "staircase"} =>
              \A k \in DOMAIN ret.value : ret.value[k] = QZero

\* the caption of k >= 2 numbers, piece by piece: "Volumes ", then the
\* numbers in their order, ", " between two of the first k-1 and " & " before
\* the last
PluralCaption(vols) ==
    LET k == Len(vols)
    IN  [p \in 1..(2 * k) |->
            IF p = 1 THEN "Volumes "
            ELSE IF p % 2 = 0 THEN ToString(vols[p \div 2])
            ELSE IF p = 2 * k - 1 THEN " & "
            ELSE ", "]

\* C15: format_volume_text yields "Volume A" for one item number,
\* "Volumes A & B" for two, and for k >= 3 "Volumes " followed by the first
\* k-1 numbers joined by ", ", then " & " and the last number, no comma
\* before the ampersand, the numbers in their given order.
C15_CaptionText ==
    /\ format_volume_text(<<5>>).text = <<"Volume ", "5">>
    /\ format_volume_text(<<5, 8>>).text = <<"Volumes ", "5", " & ", "8">>
    /\ format_volume_text(<<5, 8, 10, 12>>).text
          = <<"Volumes ", "5", ", ", "8", ", ", "10", " & ", "12">>
    /\ (call.fn = "format_volume_text" /\ ret.done /\ Len(call.vols) >= 1) =>
          LET vols == call.vols
              text == ret.value.text
          IN  /\ ret.value.raised = "none"
              /\ Len(vols) = 1 => text = <<"Volume ", ToString(vols[1])>>
              /\ Len(vols) >= 2 =>
                    /\ text = PluralCaption(vols)
                    /\ text[Len(text) - 1] = " & "
                    /\ text[Len(text) - 2] # ", "
                    /\ Cardinality({p \in DOMAIN text : text[p] = ", "})
                          = Len(vols) - 2

\* the caption of four item numbers that are not in increasing order
C15_Witness ==
    /\ call.fn = "format_volume_text"
    /\ ret.done
    /\ call.vols = <<12, 5, 10, 8>>
    /\ ret.value.text = <<"Volumes ", "12", ", ", "5", ", ", "10", " & ", "8">>

\* calculate_vertices has returned the vertices of a frame of this type
VerticesOf(type) ==
    /\ call.fn = "calculate_vertices"
    /\ create_frame_from_preset(call.preset).type = type
    /\ ret.done

\* C16: for all width > 0 and height > 0 the hexagon has six vertices, their
\* x within [x_center - width/2, x_center + width/2], their y within
\* [y_center - height/2, y_center + height/2], and the four flat-edge
\* vertices at y_center -/+ height/4.
C16_HexagonExtent ==
    VerticesOf("hexagon") =>
        LET v == ret.value
            x == SQ(call.x_center)
            y == SQ(call.y_center)
            half_width == SQ(QMul(Q(1, 2), call.scaled_width))
            half_height == SQ(QMul(Q(1, 2), call.scaled_height))
            quarter_height == SQ(QMul(Q(1, 4), call.scaled_height))
        IN  /\ Len(v) = 6
            /\ \A k \in 1..6 :
                  /\ SLe(SSub(x, half_width), v[k][1])
                  /\ SLe(v[k][1], SAdd(x, half_width))
                  /\ SLe(SSub(y, half_height), v[k][2])
                  /\ SLe(v[k][2], SAdd(y, half_height))
            /\ \A k, m \in 1..6 :
                  SLe(SSub(v[k][1], v[m][1]), SQ(call.scaled_width))
            /\ v[2][2] = SAdd(y, quarter_height)
            /\ v[6][2] = SAdd(y, quarter_height)
            /\ v[3][2] = SSub(y, quarter_height)
            /\ v[5][2] = SSub(y, quarter_height)

\* a hexagon whose width binds: its flat edges lie at x_center -/+ width/2
C16_Witness ==
    /\ VerticesOf("hexagon")
    /\ call.scaled_width = Q(1, 2)
    /\ call.scaled_height = QInt(4)
    /\ ret.value[2][1] = SQ(QAdd(call.x_center, Q(1, 4)))
    /\ ret.value[5][1] = SQ(QSub(call.x_center, Q(1, 4)))

\* squared length of the side from vertex k to the next vertex
SideSquared(v, k) ==
    LET a == v[k]
        b == v[(k % Len(v)) + 1]
        dx == SSub(b[1], a[1])
        dy == SSub(b[2], a[2])
    IN  SAdd(SMul(dx, dx), SMul(dy, dy))

\* C17: when the width does not bind (width/2 >= (height/2)/sqrt(3)) the
\* hexagon is a regular point-top hexagon: all six sides have equal length.
C17_RegularHexagon ==
    (/\ VerticesOf("hexagon")
     /\ SLe(SDivSqrt3(SQ(QMul(Q(1, 2), call.scaled_height))),
            SQ(QMul(Q(1, 2), call.scaled_width)))) =>
        \A k \in 1..6 : SideSquared(ret.value, k) = SideSquared(ret.value, 1)

\* C18: with the skew offset k = (height/2)*tan(skewAngle) the parallelogram
\* vertices are, in the order bottom-left, bottom-right, top-right, top-left,
\* (cx - w/2 - k, cy - h/2), (cx + w/2 - k, cy - h/2), (cx + w/2 + k,
\* cy + h/2), (cx - w/2 + k, cy + h/2): the top and bottom edges have length
\* w, the top edge is shifted by +k and the bottom edge by -k, the vertices
\* are point-symmetric about the centre, and with k = 0 they are the four
\* corners of the Rectangle in the same order.
C18_Parallelogram ==
    VerticesOf("parallelogram") =>
        LET v == ret.value
            cx == SQ(call.x_center)
            cy == SQ(call.y_center)
            w == SQ(call.scaled_width)
            hw == SQ(QMul(Q(1, 2), call.scaled_width))
            hh == SQ(QMul(Q(1, 2), call.scaled_height))
            k == SMul(Tan(call.preset.skew_angle), hh)
            twice(c) == SAdd(c, c)
        IN  /\ v = <<<<SSub(cx, SAdd(hw, k)), SSub(cy, hh)>>,
                     <<SAdd(cx, SSub(hw, k)), SSub(cy, hh)>>,
                     <<SAdd(cx, SAdd(hw, k)), SAdd(cy, hh)>>,
                     <<SSub(cx, SSub(hw, k)), SAdd(cy, hh)>>>>
            /\ v[1][2] = v[2][2] /\ SSub(v[2][1], v[1][1]) = w
            /\ v[3][2] = v[4][2] /\ SSub(v[3][1], v[4][1]) = w
            /\ SAdd(v[3][1], v[4][1]) = twice(SAdd(cx, k))
            /\ SAdd(v[1][1], v[2][1]) = twice(SSub(cx, k))
            /\ SLt(v[1][2], v[4][2])
            /\ SLt(v[1][1], v[2][1])
            /\ <<SAdd(v[1][1], v[3][1]), SAdd(v[1][2], v[3][2])>>
                  = <<twice(cx), twice(cy)>>
            /\ <<SAdd(v[2][1], v[4][1]), SAdd(v[2][2], v[4][2])>>
                  = <<twice(cx), twice(cy)>>
            /\ k = SZero =>
                  v = calculate_vertices(
                         create_frame_from_preset(
                            [call.preset EXCEPT !.type = "rectangle"]),
                         call.x_center, call.y_center,
                         call.scaled_width, call.scaled_height)

\* a parallelogram skewed by 15 degrees, leaning to the right
C18_Witness ==
    /\ VerticesOf("parallelogram")
    /\ call.preset.type = "parallelogram"
    /\ call.preset.skew_angle = 15
    /\ SLt(SQ(QAdd(call.x_center, QMul(Q(1, 2), call.scaled_width))),
           ret.value[3][1])
    /\ SLt(ret.value[1][1],
           SQ(QSub(call.x_center, QMul(Q(1, 2), call.scaled_width))))

\* calculate_layout_dimensions has returned or raised in the running render
Planned == pc \notin {"off", "idle", "clear", "update", "layout"}

EntriesFor(v) ==
    {p \in DOMAIN call.response.data :
        LET a == call.response.data[p]
        IN  /\ a.volume # "null"
            /\ IntOf(a.volume).raised = "none"
            /\ IntOf(a.volume).value = v
            /\ a.fileName # ""}

\* the first of a non-empty set of positions
First(ps) == CHOOSE p \in ps : \A q \in ps : p <= q

\* C20: get_volume_covers returns a mapping whose keys are exactly the
\* requested volume numbers for which the response has an entry with an
\* integer-parsable volume and a non-empty fileName: no volume that was not
\* requested, a requested volume absent from the response missing; each value
\* is "https://uploads.mangadex.org/covers/<manga_id>/<fileName>" of the first
\* such entry in response order; a failed request returns an empty mapping
\* instead of raising.
C20_VolumeCovers ==
    (call.fn = "get_volume_covers" /\ fpc = "done") =>
        /\ ret.done
        /\ DOMAIN ret.value
              = {v \in call.volume_numbers : EntriesFor(v) # {}}
        /\ \A v \in DOMAIN ret.value :
              ret.value[v]
                 = <<"https://uploads.mangadex.org/covers/", call.manga_id, "/",
                     call.response.data[First(EntriesFor(v))].fileName>>
        /\ call.response.failed => ret.value = << >>

\* volumes 1 and 2 were requested; the response had two covers of volume 1
\* and none of volume 2, and the first was returned
C20_Witness ==
    /\ call.fn = "get_volume_covers"
    /\ fpc = "done"
    /\ call.volume_numbers = {1, 2}
    /\ call.response.data = <<[volume |-> "1", fileName |-> "v1.jpg"],
                               [volume |-> "01", fileName |-> "alt.jpg"]>>
    /\ DOMAIN ret.value = {1}
    /\ ret.value[1]
          = <<"https://uploads.mangadex.org/covers/", "manga-id", "/", "v1.jpg">>

\* ------------------------------------------------------------------------
\* C21: get_manga_id issues exactly one search request; it returns the id of
\* the first result when the answer is ok with a non-empty list, and None,
\* without raising, when the list is empty or the request fails.
\* fetch_covers returns an empty mapping without a covers request when no id
\* was found or the volume set is empty.
\* ------------------------------------------------------------------------
SearchUrl == "https://api.mangadex.org/manga"

C21_Search ==
    /\ (call.fn = "get_manga_id" /\ ret.done) =>
          /\ requests = <<SearchUrl>>
          /\ (call.search.result = "ok" /\ call.search.data # << >>) =>
                ret.value = call.search.data[1].id
          /\ (call.search.failed \/ call.search.data = << >>) =>
                ret.value = "None"
    /\ (call.fn = "fetch_covers" /\ ret.done /\ call.volume_numbers = {}) =>
          ret.value = << >> /\ requests = << >>
    /\ (call.fn = "fetch_covers" /\ ret.done /\ call.manga_id = "None") =>
          ret.value = << >> /\ requests = <<SearchUrl>>
    /\ (call.fn = "fetch_covers" /\ fpc \in {"request", "loop"}) =>
          /\ call.volume_numbers # {}
          /\ call.manga_id = call.search.data[1].id
          /\ call.manga_id # "None"

C21_Witness ==
    /\ call.fn = "fetch_covers"
    /\ ret.done
    /\ call.volume_numbers # {}
    /\ call.search.result = "ok"
    /\ Len(call.search.data) = 2
    /\ call.search.data[1].id = "None"
    /\ call.search.data[2].id = "id-a"
    /\ ret.value = << >>


\* ------------------------------------------------------------------------
\* C22: after a call of render_poster_to_buffer, whether it returned a
\* buffer or raised, cover_urls holds exactly the entries it held when the
\* call began.
\* ------------------------------------------------------------------------
C22_CoverUrlsRestored ==
    \A before \in ManualUrls :
        (pc = "idle" /\ cover_urls = before)
            => [](pc = "done" => cover_urls = before)

C22_Witness ==
    /\ pc = "done"
    /\ error # "none"
    /\ cover_urls # << >>
    /\ cover_data # << >>
    /\ DOMAIN cover_data # DOMAIN cover_urls


\* ------------------------------------------------------------------------
\* C23: each _trigger_update cancels the preview timer and arms it again for
\* 500 ms.  A burst of changes less than 500 ms apart causes exactly one
\* refresh_preview; it runs only once the widgets have been quiet for 500 ms
\* and it renders the configuration and schedule as they are then.
\* ------------------------------------------------------------------------
\* every refresh rendered the widgets as they were, after 500 ms of quiet,
\* and no two refreshes rendered the same change
RefreshedOnce ==
    /\ \A n \in DOMAIN rendered : rendered[n].quiet >= debounce_delay
    /\ \A n, m \in DOMAIN rendered :
          n < m => rendered[n].config < rendered[m].config
    /\ editor.preview_timer >= 0 =>
          quiet >= debounce_delay - editor.preview_timer

C23_Debounce ==
    /\ []RefreshedOnce
    /\ [][/\ editor'.widgets # editor.widgets =>
                editor'.preview_timer = debounce_delay
          /\ rendered' # rendered =>
                /\ Len(rendered') = Len(rendered) + 1
                /\ rendered'[Len(rendered')].config = editor.widgets
                /\ editor'.preview_timer = -1]_vars
    /\ <>[](/\ editor.preview_timer = -1
            /\ editor.widgets > 0 =>
                  /\ rendered # << >>
                  /\ rendered[Len(rendered)].config = editor.widgets)

C23_Witness ==
    /\ editor.widgets = 3
    /\ Len(rendered) = 1
    /\ rendered[1].config = 3
    /\ editor.preview_timer = -1


\* ------------------------------------------------------------------------
\* C24: under every interleaving of a fetch thread with a render on the GUI
\* thread, the merged cover map a fetch delivers is its catalog result
\* overridden by the manual cover_urls entries: nothing a render swapped
\* into cover_urls appears in it and no manual override is missing from it.
\* ------------------------------------------------------------------------
\* the manual overrides: the table as it is outside a render, and as the
\* render saved it
ManualNow ==
    IF pc \in {"off", "idle", "done"} THEN cover_urls
    ELSE original_cover_urls

C24_MergedCovers ==
    \A n \in DOMAIN threads :
        threads[n].at = "emitted" =>
            threads[n].merged = MergeDicts(threads[n].covers, ManualNow)

\* ------------------------------------------------------------------------
\* C25: with several fetches in flight, once all have completed cover_data
\* holds the result of the fetch started last, and is_loading is False only
\* when no fetch is in flight.
\* ------------------------------------------------------------------------
\* a fetch is in flight until the GUI thread has handled its signal
InFlight(n) ==
    \/ threads[n].at \in {"fetch", "merge"}
    \/ \E k \in DOMAIN signals : signals[k].thread = n

C25_LatestFetch ==
    /\ (/\ threads # << >>
        /\ \A n \in DOMAIN threads : ~InFlight(n)
        /\ threads[Len(threads)].at = "emitted")
          => editor.cover_data = threads[Len(threads)].merged
    /\ ~editor.is_loading => \A n \in DOMAIN threads : ~InFlight(n)


\* ------------------------------------------------------------------------
\* C26: hex_to_rgb and Frame._hex_to_rgb never raise; they return the
\* table's triple for every name of the colour table, parse 6-digit and
\* 3-digit hexadecimal strings with or without '#', and return white for
\* any other string.
\* ------------------------------------------------------------------------
ColourNames ==
    {<<"w", "h", "i", "t", "e">>, <<"b", "l", "a", "c", "k">>,
     <<"g", "o", "l", "d">>, <<"y", "e", "l", "l", "o", "w">>,
     <<"r", "e", "d">>, <<"g", "r", "e", "e", "n">>, <<"b", "l", "u", "e">>}

IsHexString(text) ==
    /\ Len(text) \in {3, 6}
    /\ \A i \in DOMAIN text : Digit16(text[i]) >= 0

C26_HexToRgbTotal ==
    (call.fn \in {"hex_to_rgb", "Frame._hex_to_rgb"} /\ ret.done) =>
        LET h == LStripHash(call.hex_color)
        IN  /\ ret.value.raised = "none"
            /\ call.hex_color \in ColourNames =>
                  ret.value.value = ColorMap(call.hex_color)
            /\ (h \notin ColourNames /\ ~IsHexString(h)) =>
                  ret.value.value = <<255, 255, 255>>
            /\ call.hex_color = <<"#", "f", "0", "0">> =>
                  ret.value.value = <<255, 0, 0>>
            /\ call.hex_color = <<"#", "F", "F", "D", "7", "0", "0">> =>
                  ret.value.value = <<255, 215, 0>>

\* ------------------------------------------------------------------------
\* C29: for every image size and every zoom factor from 0.1 to 3.0,
\* center_crop_zoom crops a box of floor(W/zoom) x floor(H/zoom) that lies
\* inside the image, has positive width and height and is centred within
\* one pixel.
\* ------------------------------------------------------------------------
C29_CropBox ==
    (call.fn = "center_crop_zoom" /\ ret.done) =>
        LET box == ret.value
            W == call.width
            H == call.height
        IN  /\ box.right - box.left = QTrunc(QDiv(QInt(W), call.zoom_factor))
            /\ box.bottom - box.top = QTrunc(QDiv(QInt(H), call.zoom_factor))
            /\ 0 <= box.left /\ box.right <= W
            /\ 0 <= box.top /\ box.bottom <= H
            /\ box.right > box.left /\ box.bottom > box.top
            /\ (W - box.right) - box.left \in {-1, 0, 1}
            /\ (H - box.bottom) - box.top \in {-1, 0, 1}


\* ------------------------------------------------------------------------
\* C27: the six vertices of the hexagon come in counter-clockwise order in
\* figure units (y up): the signed shoelace area of the polygon is positive,
\* as it is for the parallelogram and the rectangle.
\* ------------------------------------------------------------------------
\* twice the signed area of the polygon v: the sum of x[k]*y[k+1] -
\* x[k+1]*y[k] over its first n sides
RECURSIVE Shoelace(_, _)
Shoelace(v, n) ==
    IF n = 0 THEN SZero
    ELSE LET a == v[n]
             b == v[(n % Len(v)) + 1]
         IN  SAdd(Shoelace(v, n - 1),
                  SSub(SMul(a[1], b[2]), SMul(b[1], a[2])))

C27_HexagonWinding ==
    /\ VerticesOf("parallelogram") =>
          SLt(SZero, Shoelace(ret.value, Len(ret.value)))
    /\ VerticesOf("rectangle") =>
          SLt(SZero, Shoelace(ret.value, Len(ret.value)))
    /\ VerticesOf("hexagon") =>
          SLt(SZero, Shoelace(ret.value, Len(ret.value)))


\* ------------------------------------------------------------------------
\* C28: for frameWidth > 0, frameSpacing >= 0 and horizontalPadding >= 0 the
\* frame group of every entry fits the padded content area of its cell: its
\* footprint n*scaledWidth + (n-1)*scaledSpacing is at most maxItemWidth =
\* cellWidth - 2*horizontalPadding, so no unskewed frame box extends past
\* the left or right edge of its cell or into the next cell.
\* ------------------------------------------------------------------------
C28_GroupFitsCell ==
    pc = "item" =>
        LET n == group.num_vols
            sw == group.scaled_frame_width
            half == QDiv(sw, QInt(2))
            cell_left ==
                QSub(group.cell_x, QDiv(dims.cell_width, QInt(2)))
            cell_right ==
                QAdd(group.cell_x, QDiv(dims.cell_width, QInt(2)))
        IN  /\ dims.max_item_width
                  = QSub(dims.cell_width,
                         QMul(QInt(2), config.horizontal_padding))
            /\ QLe(Footprint(n, sw, group.scaled_frame_spacing),
                   dims.max_item_width)
            /\ \A k \in 0..(n - 1) :
                  /\ QLe(QAdd(cell_left, config.horizontal_padding),
                         QSub(ItemXCenter(group, k), half))
                  /\ QLe(QAdd(ItemXCenter(group, k), half),
                         QSub(cell_right, config.horizontal_padding))
            /\ group.col + 1 < config.cols =>
                  QLe(cell_right,
                      QSub(CellX(group.col + 1, config, dims),
                           QDiv(dims.cell_width, QInt(2))))

\* a group of three items fills the content area of a cell without padding,
\* after a narrower entry
C28_Witness ==
    /\ pc = "item"
    /\ idx = 1
    /\ Len(schedule[1]) = 1
    /\ group.num_vols = 3
    /\ config.horizontal_padding = QZero
    /\ Footprint(3, group.scaled_frame_width, group.scaled_frame_spacing)
          = dims.max_item_width


\* ------------------------------------------------------------------------
\* C30: after any sequence of add_layer, start_group, end_group and
\* add_mask_group calls, current_stack is the innermost group started and
\* not yet ended (the root stack if none) and group_stack holds its
\* ancestors in order; end_group with no open group raises ValueError and
\* leaves the writer unchanged; add_mask_group leaves current_stack as it
\* found it; layer_counter is the number of stored layer images, whose file
\* names data/layer_0.png .. data/layer_{k-1}.png are pairwise distinct.
\* ------------------------------------------------------------------------
\* the stacks around element e, the root stack first
RECURSIVE Ancestors(_)
Ancestors(e) ==
    IF e = 0 THEN << >>
    ELSE Append(Ancestors(writer.elements[e].parent),
                writer.elements[e].parent)

WriterConsistent ==
    /\ writer.current_stack \in 0..Len(writer.elements)
    /\ writer.current_stack # 0 =>
          writer.elements[writer.current_stack].tag = "stack"
    /\ writer.group_stack = Ancestors(writer.current_stack)
    /\ writer.layer_counter = Len(writer.data_files)
    /\ \A k \in DOMAIN writer.data_files :
          writer.data_files[k] = LayerFile(k - 1)
    /\ \A k, m \in DOMAIN writer.data_files :
          k # m => writer.data_files[k] # writer.data_files[m]
    /\ Cardinality({e \in DOMAIN writer.elements :
                       writer.elements[e].tag = "layer"})
          = writer.layer_counter

C30_WriterStack ==
    /\ []WriterConsistent
    /\ [][/\ (call'.fn = "start_group") =>
                /\ writer'.current_stack = Len(writer'.elements)
                /\ writer'.elements[writer'.current_stack].parent
                      = writer.current_stack
                /\ writer'.group_stack
                      = Append(writer.group_stack, writer.current_stack)
          /\ (call'.fn = "end_group" /\ writer.group_stack # << >>) =>
                /\ ret'.value = "None"
                /\ writer'.current_stack
                      = writer.elements[writer.current_stack].parent
                /\ writer'.group_stack = Ancestors(writer'.current_stack)
                /\ writer'.elements = writer.elements
          /\ (call'.fn = "end_group" /\ writer.group_stack = << >>) =>
                /\ ret'.value = "ValueError"
                /\ writer' = writer
          /\ (call'.fn = "add_mask_group") =>
                /\ writer'.current_stack = writer.current_stack
                /\ writer'.group_stack = writer.group_stack
                /\ writer'.layer_counter = writer.layer_counter + 2
          /\ (call'.fn = "add_layer") =>
                /\ writer'.current_stack = writer.current_stack
                /\ writer'.group_stack = writer.group_stack
                /\ ret'.value = LayerFile(writer.layer_counter)]_vars

\* a mask group was added inside a group of a group, and the inner group
\* then ended
C30_Witness ==
    /\ call.fn = "end_group"
    /\ ret.value = "None"
    /\ Len(writer.elements) = 5
    /\ writer.elements[3].isolation
    /\ writer.layer_counter = 2
    /\ writer.current_stack = 1
    /\ writer.group_stack = <<0>>


====
